---- MODULE Spec2Model ----
(***************************************************************************)
(* Map generator and population simulator of RastBast/Fast.                *)
(*                                                                         *)
(* The state machines of this module:                                      *)
(*   Spec         the life of one map's population: generateDistribution   *)
(*                seeds it, moveNumbers advances it one token at a time;   *)
(*   SpecAdvance  moveNumbers on an arbitrary in-bounds population;        *)
(*   SpecPack     MapGenerator.Generate placing circles under a Config     *)
(*                that validateConfig accepted, or generateCircles of the  *)
(*                image server under parameters its handler accepted;      *)
(*   SpecStore    the requests of the API server one after another against *)
(*                its tables maps and map_cells;                           *)
(*   SpecSeed     generateDistribution under a wider set of probability    *)
(*                vectors;                                                 *)
(*   SpecEpoch    two newEpoch requests handled statement by statement,    *)
(*                side by side, against a store that can refuse a          *)
(*                statement;                                               *)
(*   SpecSlices   moveNumbers on []int slices with their backing arrays;   *)
(*   SpecPlayers  the player requests of the API server one after another; *)
(*   SpecNav      PersistentNavigationManager with its cache, its table    *)
(*                and its saveToDBAsync goroutines;                        *)
(*   SpecMenus    HierarchicalNavigation: RegisterMenu and GetBreadcrumb   *)
(*                calls one after another.                                 *)
(* Coordinates are the code's 0-based grid coordinates.  Token types are   *)
(* the code's 0-based indices.  float64 probabilities are held in          *)
(* hundredths (100 is 1.0) and float64 speeds in whole percent.            *)
(***************************************************************************)
EXTENDS Integers, Sequences, FiniteSets, TLC

VARIABLES
    \* ---- population life (Spec) ----
    cfg,            \* Config of the map: [Width, Height]
    circles,        \* []Circle of the map
    probabilities,  \* probability vector of the distribute request, hundredths
    speeds,         \* speed table of the map, percent
    cells,          \* []Cell: the map's current population
    seeded,         \* generateDistribution has run
    pc,             \* "idle", or "moving" inside moveNumbers' token loop
    newState,       \* moveNumbers' newState map: coordinate -> []int
    tok,            \* position of the token loop in the flattened input
    prevCells,      \* the input of the last moveNumbers call
    epochs,         \* number of moveNumbers calls completed
    \* ---- circle packing (SpecPack) ----
    config,         \* MapGenerator.config
    spawns,         \* MapGenerator.spawns
    bedrooms,       \* MapGenerator.bedrooms
    gpc,            \* position inside Generate
    gi,             \* loop variable i of the running placement loop
    attempts,       \* loop variable attempts of the running placement loop
    genErr,         \* what Generate returned or how it aborted
    \* ---- circle list of the image server (SpecPack) ----
    mg,             \* the MapGenerator of the image server
    icircles,       \* generateCircles' circles
    ipc,            \* position inside generateCircles
    iattempts,      \* attempts of the running tryPlace call
    \* ---- the API server's store (SpecStore) ----
    maps,           \* table maps: row id -> [config, circles, hasSpeeds, speeds, epoch]
    mapCells,       \* table map_cells: map id -> the rows of the map as []Cell
    resp,           \* the last request and how it was answered
    before,         \* maps and mapCells as the last request found them
    advances,       \* map id -> number of newEpoch requests answered 200
    fresh,          \* map id -> the rows of map_cells are those a distribute request saved
    \* ---- newEpochHandler statement by statement (SpecEpoch) ----
    hs,             \* request -> [pc, mapID, row, cells, currentEpoch] of its handler
    \* ---- the slices of moveNumbers (SpecSlices) ----
    heap,           \* backing arrays of the []int slices: array id -> contents, one entry per slot
    heapAtCall,     \* heap as it was when moveNumbers was called
    inCells,        \* the argument cells: []Cell whose Vals is a slice [arr, len]
    nsRefs,         \* newState: coordinate -> slice [arr, len]
    outCells,       \* the []Cell moveNumbers returned
    spc,            \* position inside moveNumbers
    spos,           \* position of the token loop in the flattened input
    \* ---- the players of the API server (SpecPlayers) ----
    players,        \* table players: row id -> [map_id, x, y]
    presp,          \* the last player request and how it was answered
    pbefore,        \* players as the last request found it
    \* ---- PersistentNavigationManager (SpecNav) ----
    navRun,         \* the run: [users, menus, pending, depth], fixed
    navHeap,        \* backing arrays of the []string slices: array id -> slots
    cache,          \* pnm.cache: user -> slice [arr, off, len]
    cacheTTL,       \* pnm.cacheTTL: user -> "live" or "expired" at the present time
    ttlOrder,       \* the users whose deadline is ahead, earliest deadline first
    userNavigation, \* table user_navigation: user -> [stack]
    saves,          \* the running saveToDBAsync goroutines, in the order started
    navCall,        \* the last PushMenu or PopMenu call and what it returned
    latest,         \* user -> the stack the user's last PushMenu or PopMenu produced
    \* ---- HierarchicalNavigation (SpecMenus) ----
    hierarchy,      \* hn.hierarchy: menu id -> parent id
    registered,     \* number of RegisterMenu calls made
    crumb           \* the last GetBreadcrumb call: [op, menuID, returns, path]

simVars  == <<cfg, circles, probabilities, speeds, cells, seeded, pc, newState,
              tok, prevCells, epochs>>
packVars == <<config, spawns, bedrooms, gpc, gi, attempts, genErr>>
imgVars  == <<mg, icircles, ipc, iattempts>>
storeVars == <<maps, mapCells, resp, before, advances, fresh>>
epochVars == <<hs>>
sliceVars == <<heap, heapAtCall, inCells, nsRefs, outCells, spc, spos>>
playerVars == <<players, presp, pbefore>>
navVars  == <<navRun, navHeap, cache, cacheTTL, ttlOrder, userNavigation, saves, navCall, latest>>
menuVars == <<hierarchy, registered, crumb>>
vars     == <<simVars, packVars, imgVars, storeVars, epochVars, sliceVars, playerVars, navVars,
              menuVars>>

\* what the actions of one machine leave alone
notSim   == <<packVars, imgVars, storeVars, epochVars, sliceVars, playerVars, navVars,
             menuVars>>
notPack  == <<simVars, imgVars, storeVars, epochVars, sliceVars, playerVars, navVars,
             menuVars>>
notImg   == <<simVars, packVars, storeVars, epochVars, sliceVars, playerVars, navVars,
             menuVars>>
notStore == <<simVars, packVars, imgVars, epochVars, sliceVars, playerVars, navVars,
             menuVars>>
notEpoch == <<simVars, packVars, imgVars, resp, advances, fresh, sliceVars, playerVars, navVars,
             menuVars>>
notSlice == <<simVars, packVars, imgVars, storeVars, epochVars, playerVars, navVars,
             menuVars>>
notNav   == <<simVars, packVars, imgVars, storeVars, epochVars, sliceVars, playerVars,
             menuVars>>
notPlayers == <<simVars, packVars, imgVars, mapCells, resp, before, advances, fresh,
                epochVars, sliceVars, navVars, menuVars>>
notMenus == <<simVars, packVars, imgVars, storeVars, epochVars, sliceVars, playerVars, navVars>>

-----------------------------------------------------------------------------
(* Bounds of the model. *)

\* largest grid width and height of a simulated map
MaxDim == 3
\* largest circle radius of a simulated map
MaxSimRadius == 1
\* largest number of cells outside every circle of a simulated map
MaxExterior == 4
\* number of moveNumbers calls explored per map
MaxEpochs == 1
\* largest grid width and height of an arbitrary input population
MaxAdvDim == 2
\* largest number of Cell entries of an arbitrary input population
MaxCells == 2
\* largest number of tokens of one Cell of an arbitrary input population
MaxVals == 2
\* largest token type of an arbitrary input population
MaxType == 1
\* largest Width of a Config given to Generate
MaxPackWidth == 7
\* largest Height of a Config given to Generate
MaxPackHeight == 3
\* largest SpawnR and BedroomR of a Config given to Generate
MaxPackRadius == 1
\* largest Spawns of a Config given to Generate
MaxSpawns == 2
\* largest Bedrooms of a Config given to Generate
MaxBedrooms == 2
\* largest MaxGap of a Config given to Generate
MaxPackGap == 1
\* placement attempts per circle; the code's loops allow 3000
AttemptBudget == 2
\* largest Width and Height of the image server's MapGenerator
MaxImgDim == 2
\* largest CellSize of the image server's MapGenerator; its handler sets 100
MaxCellSize == 3
\* largest SpawnCount and BedroomCount of the image server's MapGenerator
MaxImgCount == 2
\* largest SpawnRadius and BedroomRadius of the image server's MapGenerator
MaxImgRadius == 1
\* attempts per tryPlace call; the code's maxAttempts is 50000
ImgAttemptBudget == 3
\* rows of the table maps
MaxMaps == 1
\* largest epoch a newEpoch request starts from
MaxStoreEpoch == 1
\* rows of the table players
MaxPlayers == 2
\* pnm.maxStackDepth; NewPersistentNavigationManager sets 20
maxStackDepth == 6
\* pnm.maxCacheSize; NewPersistentNavigationManager sets 1000
maxCacheSize == 2
\* entries cleanupCache removes beyond the excess; the code removes 100
cleanupBuffer == 1
\* users of a run that fills the cache
MaxNavUsers == 3
\* saveToDBAsync goroutines running at a time
MaxPending == 2
\* longest stack of a run with three menus
MaxRaceDepth == 3
\* RegisterMenu calls of a run
MaxRegistered == 2

-----------------------------------------------------------------------------
(* Helpers. *)

Abs(n) == IF n < 0 THEN -n ELSE n

Min2(a, b) == IF a < b THEN a ELSE b

Max2(a, b) == IF a > b THEN a ELSE b

\* Go's int(f) of the rational n/d, d > 0: truncation toward zero
TruncDiv(n, d) == IF n >= 0 THEN n \div d ELSE -((-n) \div d)

RECURSIVE SumLens(_, _)
SumLens(cs, k) == IF k > Len(cs) THEN 0 ELSE Len(cs[k].Vals) + SumLens(cs, k + 1)

\* number of tokens of a population
TokenCount(cs) == SumLens(cs, 1)

\* the grid of a Config, as the loops "for y ... for x ..." visit it
Coords(c) == {<<x, y>> : x \in 0 .. c.Width - 1, y \in 0 .. c.Height - 1}

\* k-th coordinate (k from 0) of the row-major double loop
RowMajor(c, k) == <<k % c.Width, k \div c.Width>>

-----------------------------------------------------------------------------
(* getCellType: 0 outside every circle, 1 inside a circle, 2 a centre.     *)
(* The first circle that matches either test decides.                      *)

RECURSIVE getCellTypeFrom(_, _, _, _)
getCellTypeFrom(x, y, cs, k) ==
    IF k > Len(cs) THEN 0
    ELSE LET dx == x - cs[k].X
             dy == y - cs[k].Y
         IN  IF dx = 0 /\ dy = 0 THEN 2
             ELSE IF dx * dx + dy * dy <= cs[k].Radius * cs[k].Radius THEN 1
             ELSE getCellTypeFrom(x, y, cs, k + 1)

getCellType(x, y, cs) == getCellTypeFrom(x, y, cs, 1)

-----------------------------------------------------------------------------
(* createProbabilitySelector: int(p*50) copies of each index.              *)

\* n appends of v
Repeat(v, n) == IF n <= 0 THEN <<>> ELSE [k \in 1 .. n |-> v]

RECURSIVE selectorFrom(_, _)
selectorFrom(ps, k) ==
    IF k > Len(ps) THEN <<>>
    ELSE Repeat(k - 1, TruncDiv(ps[k] * 50, 100)) \o selectorFrom(ps, k + 1)

\* a variant of createProbabilitySelector that lists every index once,
\* whatever its probability; C23 tells it from createProbabilitySelector
createProbabilitySelector_everyIndex(ps) == [k \in 1 .. Len(ps) |-> k - 1]

createProbabilitySelector(ps) == selectorFrom(ps, 1)

\* the values selector[rand.Intn(len(selector))] can take
Draws(selector) == {selector[k] : k \in 1 .. Len(selector)}

-----------------------------------------------------------------------------
(* generateDistribution: the set of populations one call can return.       *)

\* a variant of CellVals whose Interior case draws its count as the Exterior
\* case does; C8 tells it from CellVals
CellVals_interiorTwo(cellType, selector) ==
    IF cellType = 2 THEN {}
    ELSE {<<v>> : v \in Draws(selector)}
         \cup {<<v, w>> : v \in Draws(selector), w \in Draws(selector)}

\* the token lists the switch can give a cell of the given type
CellVals(cellType, selector) ==
    IF cellType = 2 THEN {}
    ELSE IF cellType = 1 THEN {<<v>> : v \in Draws(selector)}
    ELSE {<<v>> : v \in Draws(selector)}
         \cup {<<v, w>> : v \in Draws(selector), w \in Draws(selector)}

RECURSIVE distributionFrom(_, _, _, _)
distributionFrom(c, cs, selector, k) ==
    IF k >= c.Width * c.Height THEN {<<>>}
    ELSE LET x    == RowMajor(c, k)[1]
             y    == RowMajor(c, k)[2]
             opts == CellVals(getCellType(x, y, cs), selector)
             rest == distributionFrom(c, cs, selector, k + 1)
         IN  IF opts = {} THEN rest
             ELSE {<<[X |-> x, Y |-> y, Vals |-> v]>> \o r : v \in opts, r \in rest}

generateDistribution(c, cs, ps) ==
    LET selector == createProbabilitySelector(ps)
    IN  IF Len(selector) = 0 THEN {<<>>}
        ELSE distributionFrom(c, cs, selector, 0)

-----------------------------------------------------------------------------
(* getNeighbors: the in-bounds neighbours in the order of `directions`.    *)

\* a variant of directions whose second entry reaches two cells to the left;
\* C30 tells it from directions
directions_withJump ==
    << <<-1, -1>>, <<-2, 0>>, <<-1, 1>>, <<0, -1>>,
       <<0, 1>>, <<1, -1>>, <<1, 0>>, <<1, 1>> >>

directions ==
    << <<-1, -1>>, <<-1, 0>>, <<-1, 1>>, <<0, -1>>,
       <<0, 1>>, <<1, -1>>, <<1, 0>>, <<1, 1>> >>

RECURSIVE neighborsFrom(_, _, _, _)
neighborsFrom(x, y, c, k) ==
    IF k > Len(directions) THEN <<>>
    ELSE LET nx == x + directions[k][1]
             ny == y + directions[k][2]
         IN  IF nx >= 0 /\ nx < c.Width /\ ny >= 0 /\ ny < c.Height
             THEN <<<<nx, ny>>>> \o neighborsFrom(x, y, c, k + 1)
             ELSE neighborsFrom(x, y, c, k + 1)

getNeighbors(x, y, c) == neighborsFrom(x, y, c, 1)
-----------------------------------------------------------------------------
(* moveNumbers.                                                            *)

\* the tokens in the order of "for _, cell := range cells { for _, val := ..."
RECURSIVE cellTokens(_, _)
cellTokens(cell, k) ==
    IF k > Len(cell.Vals) THEN <<>>
    ELSE <<[X |-> cell.X, Y |-> cell.Y, val |-> cell.Vals[k]]>> \o cellTokens(cell, k + 1)

RECURSIVE tokensFrom(_, _)
tokensFrom(cs, k) ==
    IF k > Len(cs) THEN <<>> ELSE cellTokens(cs[k], 1) \o tokensFrom(cs, k + 1)

Tokens(cs) == tokensFrom(cs, 1)

\* newState[key] of a Go map: the empty slice when the key is absent
Lookup(ns, key) == IF key \in DOMAIN ns THEN ns[key] ELSE <<>>

\* a variant of AppendAt that assigns the slice instead of appending to it;
\* C2 tells it from AppendAt
AppendAt_assigns(ns, key, val) ==
    [k \in DOMAIN ns \cup {key} |-> IF k = key THEN <<val>> ELSE ns[k]]

\* newState[key] = append(newState[key], val)
AppendAt(ns, key, val) ==
    [k \in DOMAIN ns \cup {key} |-> IF k = key THEN Append(Lookup(ns, key), val) ELSE ns[k]]

\* newState after the initialisation loop
emptyState(c) == [k \in Coords(c) |-> <<>>]

\* the orders the shuffle loop can leave n neighbours in: every permutation
IndexPerms == [n \in 0 .. 8 |-> Permutations(1 .. n)]

Shuffled(neighbors, p) == [k \in 1 .. Len(neighbors) |-> neighbors[p[k]]]

\* a variant of canMove whose case 2 admits a token as case 0 does; C19
\* tells it from canMove
canMove_centreOpen(neighborType, currentCount) ==
    IF neighborType = 1 THEN currentCount < 1 ELSE currentCount < 2

\* a variant of canMove whose case 0 admits one token only; C21 tells it
\* from canMove
canMove_exteriorOne(neighborType, currentCount) ==
    IF neighborType = 2 THEN FALSE ELSE currentCount < 1

\* the switch on neighborType
canMove(neighborType, currentCount) ==
    IF neighborType = 0 THEN currentCount < 2
    ELSE IF neighborType = 1 THEN currentCount < 1
    ELSE FALSE

\* the scan "for _, neigh := range neighbors": newState after it, the
\* token appended to the first neighbour that can take it, else to its own cell
RECURSIVE scanNeighbors(_, _, _, _, _)
scanNeighbors(ns, t, order, cs, k) ==
    IF k > Len(order) THEN AppendAt(ns, <<t.X, t.Y>>, t.val)
    ELSE LET neighborType == getCellType(order[k][1], order[k][2], cs)
             currentCount == Len(Lookup(ns, order[k]))
         IN  IF canMove(neighborType, currentCount)
             THEN AppendAt(ns, order[k], t.val)
             ELSE scanNeighbors(ns, t, order, cs, k + 1)

\* a variant of tokenSpeed that reads speeds[0] for every token; C22 tells
\* it from tokenSpeed
tokenSpeed_alwaysFirst(val, sp) == sp[1]

\* the speed of a token: speeds[val], speeds[0] when val is past the table
tokenSpeed(val, sp) == sp[(IF val >= Len(sp) THEN 0 ELSE val) + 1]

\* a variant of moveToken that leaves out a token whose destination already
\* holds two tokens; C20 tells it from moveToken
moveToken_capped(ns, t, moves, order, cs) ==
    LET own  == <<t.X, t.Y>>
        next == IF moves THEN scanNeighbors(ns, t, order, cs, 1) ELSE AppendAt(ns, own, t.val)
    IN  IF Len(next[own]) > 2 THEN ns ELSE next

\* a variant of moveToken that puts a token that stays in front of the tokens
\* its cell already holds; C31 tells it from moveToken
moveToken_stayersFirst(ns, t, moves, order, cs) ==
    IF moves THEN scanNeighbors(ns, t, order, cs, 1)
    ELSE [ns EXCEPT ![<<t.X, t.Y>>] = <<t.val>> \o @]

\* one pass of the loop body for token t; moves is "rand.Float64()*100 < speed"
moveToken(ns, t, moves, order, cs) ==
    IF moves THEN scanNeighbors(ns, t, order, cs, 1)
    ELSE AppendAt(ns, <<t.X, t.Y>>, t.val)

\* the final double loop: cells with a token, row by row
RECURSIVE resultFrom(_, _, _)
resultFrom(ns, c, k) ==
    IF k >= c.Width * c.Height THEN <<>>
    ELSE LET key == RowMajor(c, k)
         IN  IF Len(Lookup(ns, key)) > 0
             THEN <<[X |-> key[1], Y |-> key[2], Vals |-> Lookup(ns, key)]>>
                  \o resultFrom(ns, c, k + 1)
             ELSE resultFrom(ns, c, k + 1)

\* a variant of moveResult that lists every cell of the grid, the cells
\* without a token as well; C27 tells it from moveResult
moveResult_keepsEmpty(ns, c) ==
    [k \in 1 .. c.Width * c.Height |->
        [X |-> RowMajor(c, k - 1)[1], Y |-> RowMajor(c, k - 1)[2],
         Vals |-> Lookup(ns, RowMajor(c, k - 1))]]

moveResult(ns, c) == resultFrom(ns, c, 0)

\* a variant of the early return that drops the cells without a token, as
\* the result loop does; C4 tells it from noSpeedsResult
noSpeedsResult_dropsEmpty(cs, c) == SelectSeq(cs, LAMBDA cell : Len(cell.Vals) > 0)

\* the early return of an empty speed table: "return cells"
noSpeedsResult(cs, c) == cs

-----------------------------------------------------------------------------
(* Spec: one map, seeded once, then advanced.                              *)

\* the circle at the bounds' centre, the first one Generate places
CentreCircle(c, r) == [X |-> c.Width \div 2, Y |-> c.Height \div 2, Radius |-> r, Type |-> "spawn"]

\* the test of canPlaceCircle against the bounds
InBounds(c, circle) ==
    ~(circle.X - circle.Radius < 0 \/ circle.X + circle.Radius >= c.Width
      \/ circle.Y - circle.Radius < 0 \/ circle.Y + circle.Radius >= c.Height)

SimConfigs == {[Width |-> w, Height |-> h] : w \in 1 .. MaxDim, h \in 1 .. MaxDim}

ExteriorCells(c, cs) == {k \in Coords(c) : getCellType(k[1], k[2], cs) = 0}

\* maps without circles and maps with the one spawn circle Generate places first
SimCircleSets(c) ==
    {cs \in {<<>>} \cup {<<CentreCircle(c, r)>> :
                             r \in {r \in 0 .. MaxSimRadius : InBounds(c, CentreCircle(c, r))}} :
        Cardinality(ExteriorCells(c, cs)) <= MaxExterior}

ProbVectors == {<<>>, <<0>>, <<1>>, <<100>>, <<0, 100>>}

SpeedTables == {<<>>, <<0>>, <<100>>, <<0, 100>>}

InitPackIdle ==
    /\ config = [Width |-> 0, Height |-> 0, Spawns |-> 0, Bedrooms |-> 0,
                 SpawnR |-> 0, BedroomR |-> 0, MaxGap |-> 0]
    /\ spawns = <<>>
    /\ bedrooms = <<>>
    /\ gpc = "off"
    /\ gi = 0
    /\ attempts = 0
    /\ genErr = "none"

InitStoreIdle ==
    /\ maps = <<>>
    /\ mapCells = <<>>
    /\ resp = [op |-> "off", id |-> 0, code |-> "none", generated |-> FALSE,
               probabilities |-> <<>>, speeds |-> <<>>]
    /\ before = [maps |-> <<>>, mapCells |-> <<>>]
    /\ advances = <<>>
    /\ fresh = <<>>

InitEpochIdle == hs = <<>>

InitSliceIdle ==
    /\ heap = <<>>
    /\ heapAtCall = <<>>
    /\ inCells = <<>>
    /\ nsRefs = <<>>
    /\ outCells = <<>>
    /\ spc = "off"
    /\ spos = 0

InitPlayerIdle ==
    /\ players = <<>>
    /\ presp = [op |-> "off", id |-> 0, direction |-> "", code |-> "none"]
    /\ pbefore = <<>>

InitNavIdle ==
    /\ navRun = [users |-> {}, menus |-> {}, pending |-> 0, depth |-> 0]
    /\ navHeap = <<>>
    /\ cache = <<>>
    /\ cacheTTL = <<>>
    /\ ttlOrder = <<>>
    /\ userNavigation = <<>>
    /\ saves = <<>>
    /\ navCall = [op |-> "off"]
    /\ latest = <<>>

InitMenuIdle ==
    /\ hierarchy = <<>>
    /\ registered = 0
    /\ crumb = [op |-> "off"]

InitImgIdle ==
    /\ mg = [Width |-> 0, Height |-> 0, SpawnCount |-> 0, BedroomCount |-> 0,
             SpawnRadius |-> 0, BedroomRadius |-> 0, CellSize |-> 0]
    /\ icircles = <<>>
    /\ ipc = "off"
    /\ iattempts = 0

Init ==
    /\ cfg \in SimConfigs
    /\ circles \in SimCircleSets(cfg)
    /\ probabilities \in ProbVectors
    /\ speeds \in SpeedTables
    /\ cells = <<>>
    /\ seeded = FALSE
    /\ pc = "idle"
    /\ newState = <<>>
    /\ tok = 0
    /\ prevCells = <<>>
    /\ epochs = 0
    /\ InitPackIdle
    /\ InitImgIdle
    /\ InitStoreIdle
    /\ InitEpochIdle
    /\ InitSliceIdle
    /\ InitPlayerIdle
    /\ InitNavIdle
    /\ InitMenuIdle

\* cells = generateDistribution(cfg, circles, probabilities)
Distribute ==
    /\ pc = "idle"
    /\ ~seeded
    /\ cells' \in generateDistribution(cfg, circles, probabilities)
    /\ seeded' = TRUE
    /\ UNCHANGED <<cfg, circles, probabilities, speeds, pc, newState, tok, prevCells, epochs>>
    /\ UNCHANGED notSim

\* moveNumbers with an empty speed table: the input is returned
AdvanceNoSpeeds ==
    /\ pc = "idle"
    /\ seeded
    /\ epochs < MaxEpochs
    /\ Len(speeds) = 0
    /\ cells' = noSpeedsResult(cells, cfg)
    /\ prevCells' = cells
    /\ epochs' = epochs + 1
    /\ UNCHANGED <<cfg, circles, probabilities, speeds, seeded, pc, newState, tok>>
    /\ UNCHANGED notSim

\* moveNumbers up to the token loop
AdvanceBegin ==
    /\ pc = "idle"
    /\ seeded
    /\ epochs < MaxEpochs
    /\ Len(speeds) > 0
    /\ newState' = emptyState(cfg)
    /\ tok' = 1
    /\ pc' = "moving"
    /\ UNCHANGED <<cfg, circles, probabilities, speeds, cells, seeded, prevCells, epochs>>
    /\ UNCHANGED notSim

\* one pass of the token loop
MoveToken ==
    /\ pc = "moving"
    /\ tok <= Len(Tokens(cells))
    /\ LET t         == Tokens(cells)[tok]
           speed     == tokenSpeed(t.val, speeds)
           neighbors == getNeighbors(t.X, t.Y, cfg)
       IN  \E moves \in BOOLEAN :
               /\ moves => speed > 0
               /\ ~moves => speed < 100
               /\ newState' \in {moveToken(newState, t, moves, Shuffled(neighbors, p), circles) :
                                    p \in IF moves THEN IndexPerms[Len(neighbors)] ELSE {<<>>}}
    /\ tok' = tok + 1
    /\ UNCHANGED <<cfg, circles, probabilities, speeds, cells, seeded, pc, prevCells, epochs>>
    /\ UNCHANGED notSim

\* the token loop is over: the result replaces the population
AdvanceEnd ==
    /\ pc = "moving"
    /\ tok > Len(Tokens(cells))
    /\ cells' = moveResult(newState, cfg)
    /\ prevCells' = cells
    /\ epochs' = epochs + 1
    /\ pc' = "idle"
    /\ newState' = <<>>
    /\ tok' = 0
    /\ UNCHANGED <<cfg, circles, probabilities, speeds, seeded>>
    /\ UNCHANGED notSim

Next ==
    \/ Distribute
    \/ AdvanceNoSpeeds
    \/ AdvanceBegin
    \/ MoveToken
    \/ AdvanceEnd

Spec == Init /\ [][Next]_vars

-----------------------------------------------------------------------------
(* SpecSeed: generateDistribution under probability vectors of several     *)
(* types, of entries that int(p*50) truncates to 0, and of negative ones.  *)

SeedProbVectors == {<<>>, <<100>>, <<50, 50>>, <<1, 100>>, <<-100, 0, 100>>}

InitSeed ==
    /\ cfg \in SimConfigs
    /\ circles \in SimCircleSets(cfg)
    /\ probabilities \in SeedProbVectors
    /\ speeds = <<>>
    /\ cells = <<>>
    /\ seeded = FALSE
    /\ pc = "idle"
    /\ newState = <<>>
    /\ tok = 0
    /\ prevCells = <<>>
    /\ epochs = 0
    /\ InitPackIdle
    /\ InitImgIdle
    /\ InitStoreIdle
    /\ InitEpochIdle
    /\ InitSliceIdle
    /\ InitPlayerIdle
    /\ InitNavIdle
    /\ InitMenuIdle

SpecSeed == InitSeed /\ [][Distribute]_vars

-----------------------------------------------------------------------------
(* SpecAdvance: moveNumbers called on an arbitrary in-bounds population.   *)

AdvConfigs == {[Width |-> w, Height |-> h] : w \in 1 .. MaxAdvDim, h \in 1 .. MaxAdvDim}

\* no circle, or one circle of radius 1 centred on a cell of the grid
AdvCircleSets(c) ==
    {<<>>} \cup {<<[X |-> k[1], Y |-> k[2], Radius |-> 1, Type |-> "spawn"]>> : k \in Coords(c)}

SeqsUpTo(S, n) == UNION {[1 .. m -> S] : m \in 0 .. n}

AdvCells(c) ==
    {[X |-> k[1], Y |-> k[2], Vals |-> v] : k \in Coords(c), v \in SeqsUpTo(0 .. MaxType, MaxVals)}

AdvSpeedTables == {<<>>, <<0>>, <<50>>, <<0, 100>>}

InitAdvance ==
    /\ cfg \in AdvConfigs
    /\ circles \in AdvCircleSets(cfg)
    /\ probabilities = <<>>
    /\ speeds \in AdvSpeedTables
    /\ cells \in SeqsUpTo(AdvCells(cfg), MaxCells)
    /\ seeded = TRUE
    /\ pc = "idle"
    /\ newState = <<>>
    /\ tok = 0
    /\ prevCells = <<>>
    /\ epochs = 0
    /\ InitPackIdle
    /\ InitImgIdle
    /\ InitStoreIdle
    /\ InitEpochIdle
    /\ InitSliceIdle
    /\ InitPlayerIdle
    /\ InitNavIdle
    /\ InitMenuIdle

NextAdvance ==
    \/ AdvanceNoSpeeds
    \/ AdvanceBegin
    \/ MoveToken
    \/ AdvanceEnd

SpecAdvance == InitAdvance /\ [][NextAdvance]_vars

-----------------------------------------------------------------------------
(* MapGenerator.                                                           *)

RECURSIVE typedFrom(_, _, _)
typedFrom(cs, type, k) ==
    IF k > Len(cs) THEN <<>>
    ELSE <<[X |-> cs[k].X, Y |-> cs[k].Y, Radius |-> cs[k].Radius, Type |-> type]>>
         \o typedFrom(cs, type, k + 1)

\* a variant of getAllCircles that lists the bedrooms first; C12 tells it
\* from getAllCircles
getAllCircles_bedroomsFirst(sp, bd) == typedFrom(bd, "bedroom", 1) \o typedFrom(sp, "spawn", 1)

\* a variant of getAllCircles that lists the circles from the last placed
\* to the first; C24 tells it from getAllCircles
getAllCircles_newestFirst(sp, bd) ==
    LET all == typedFrom(sp, "spawn", 1) \o typedFrom(bd, "bedroom", 1)
    IN  [k \in 1 .. Len(all) |-> all[Len(all) + 1 - k]]

\* getAllCircles: the spawns, then the bedrooms
getAllCircles(sp, bd) == typedFrom(sp, "spawn", 1) \o typedFrom(bd, "bedroom", 1)

\* math.Sqrt(float64(d2)) < float64(sum) for integers d2 >= 0 and sum
sqrtLess(d2, sum) == sum > 0 /\ d2 < sum * sum

\* the loop of canPlaceCircle over the circles placed so far
RECURSIVE clearOfFrom(_, _, _)
clearOfFrom(newCircle, existing, k) ==
    IF k > Len(existing) THEN TRUE
    ELSE LET dx == newCircle.X - existing[k].X
             dy == newCircle.Y - existing[k].Y
         IN  IF sqrtLess(dx * dx + dy * dy, newCircle.Radius + existing[k].Radius)
             THEN FALSE
             ELSE clearOfFrom(newCircle, existing, k + 1)

\* a variant of canPlaceCircle that looks at the spawns only; C5 tells it
\* from canPlaceCircle
canPlaceCircle_spawnsOnly(c, sp, bd, newCircle) ==
    IF newCircle.X - newCircle.Radius < 0 \/ newCircle.X + newCircle.Radius >= c.Width
       \/ newCircle.Y - newCircle.Radius < 0 \/ newCircle.Y + newCircle.Radius >= c.Height
    THEN FALSE
    ELSE clearOfFrom(newCircle, getAllCircles(sp, <<>>), 1)

\* a variant of canPlaceCircle whose bounds test lets a circle reach one
\* cell past the right and the lower border; C6 tells it from canPlaceCircle
canPlaceCircle_pastBorder(c, sp, bd, newCircle) ==
    IF newCircle.X - newCircle.Radius < 0 \/ newCircle.X + newCircle.Radius > c.Width
       \/ newCircle.Y - newCircle.Radius < 0 \/ newCircle.Y + newCircle.Radius > c.Height
    THEN FALSE
    ELSE clearOfFrom(newCircle, getAllCircles(sp, bd), 1)

canPlaceCircle(c, sp, bd, newCircle) ==
    IF newCircle.X - newCircle.Radius < 0 \/ newCircle.X + newCircle.Radius >= c.Width
       \/ newCircle.Y - newCircle.Radius < 0 \/ newCircle.Y + newCircle.Radius >= c.Height
    THEN FALSE
    ELSE clearOfFrom(newCircle, getAllCircles(sp, bd), 1)

\* The reals that int() truncates to n lie between TruncLo(n) and TruncHi(n).
TruncLo(n) == IF n > 0 THEN n ELSE n - 1
TruncHi(n) == IF n < 0 THEN n ELSE n + 1

\* least and largest distance from the integer b to the reals truncating to n
NearGap(b, n) == IF b = n THEN 0 ELSE IF b < n THEN TruncLo(n) - b ELSE b - TruncHi(n)
FarGap(b, n) == Max2(Abs(b - TruncLo(n)), Abs(b - TruncHi(n)))

\* (x, y) can be int(base + distance*(cos, sin)) for some angle and some
\* distance between minDistance and maxDistance.  The ends count: the
\* float64 products and sums round onto them.
OnRing(base, x, y, minDistance, maxDistance) ==
    LET near == NearGap(base.X, x) * NearGap(base.X, x) + NearGap(base.Y, y) * NearGap(base.Y, y)
        far  == FarGap(base.X, x) * FarGap(base.X, x) + FarGap(base.Y, y) * FarGap(base.Y, y)
    IN  near <= maxDistance * maxDistance /\ far >= minDistance * minDistance

\* the test that ends the loop of generateNearbyPosition
inBox(c, radius, x, y) ==
    x >= radius /\ x < c.Width - radius /\ y >= radius /\ y < c.Height - radius

\* radius + rand.Intn(width - 2*radius) and the same for y: the positions it
\* can give, or "panic" when an argument of rand.Intn is not positive
uniformPosition(c, radius) ==
    IF c.Width - 2 * radius <= 0 \/ c.Height - 2 * radius <= 0 THEN {"panic"}
    ELSE {<<x, y>> : x \in radius .. c.Width - radius - 1, y \in radius .. c.Height - radius - 1}

\* generateNearbyPosition: a ring position inside the box, or, when a ring
\* position can miss the box, whatever the uniform draw after the loop gives
generateNearbyPosition(c, baseCircle, radius) ==
    LET minDistance == baseCircle.Radius + radius
        maxDistance == minDistance + c.MaxGap
        reach       == maxDistance + 1
        ring        == {k \in (baseCircle.X - reach .. baseCircle.X + reach)
                               \X (baseCircle.Y - reach .. baseCircle.Y + reach) :
                           OnRing(baseCircle, k[1], k[2], minDistance, maxDistance)}
        inside      == {k \in ring : inBox(c, radius, k[1], k[2])}
    IN  inside \cup (IF ring \ inside # {} THEN uniformPosition(c, radius) ELSE {})

\* the position one placement attempt proposes
proposals(c, sp, bd, radius) ==
    LET existing == getAllCircles(sp, bd)
    IN  IF Len(existing) > 0
        THEN UNION {generateNearbyPosition(c, existing[b], radius) : b \in 1 .. Len(existing)}
        ELSE uniformPosition(c, radius)

-----------------------------------------------------------------------------
(* SpecPack: Generate on a Config that validateConfig accepted.            *)

validateConfig(c) ==
    ~(c.Width <= 0 \/ c.Height <= 0)
    /\ ~(c.Width > 100 \/ c.Height > 100)
    /\ ~(c.Spawns < 0 \/ c.Bedrooms < 0)

PackConfigs ==
    {c \in [Width : 1 .. MaxPackWidth, Height : 1 .. MaxPackHeight,
            Spawns : 0 .. MaxSpawns, Bedrooms : 0 .. MaxBedrooms,
            SpawnR : 0 .. MaxPackRadius, BedroomR : 0 .. MaxPackRadius,
            MaxGap : 0 .. MaxPackGap] : validateConfig(c)}

InitSimIdle ==
    /\ cfg = [Width |-> 0, Height |-> 0]
    /\ circles = <<>>
    /\ probabilities = <<>>
    /\ speeds = <<>>
    /\ cells = <<>>
    /\ seeded = FALSE
    /\ pc = "off"
    /\ newState = <<>>
    /\ tok = 0
    /\ prevCells = <<>>
    /\ epochs = 0

InitPack ==
    /\ config \in PackConfigs
    /\ spawns = <<>>
    /\ bedrooms = <<>>
    /\ gpc = "start"
    /\ gi = 0
    /\ attempts = 0
    /\ genErr = "none"
    /\ InitSimIdle
    /\ InitImgIdle
    /\ InitStoreIdle
    /\ InitEpochIdle
    /\ InitSliceIdle
    /\ InitPlayerIdle
    /\ InitNavIdle
    /\ InitMenuIdle

\* Generate up to its first loop: the circle at the centre of the bounds
PlaceCentre ==
    /\ gpc = "start"
    /\ LET center == [X |-> config.Width \div 2, Y |-> config.Height \div 2,
                      Radius |-> config.SpawnR]
       IN  spawns' = IF config.Spawns > 0 /\ canPlaceCircle(config, spawns, bedrooms, center)
                     THEN Append(spawns, center)
                     ELSE spawns
    /\ gi' = Len(spawns')
    /\ attempts' = 0
    /\ gpc' = "spawns"
    /\ UNCHANGED <<config, bedrooms, genErr>>
    /\ UNCHANGED notPack

\* one pass of the attempts loop of the spawn loop
SpawnAttempt ==
    /\ gpc = "spawns"
    /\ gi < config.Spawns
    /\ attempts < AttemptBudget
    /\ \E pos \in proposals(config, spawns, bedrooms, config.SpawnR) :
           IF pos = "panic"
           THEN /\ gpc' = "panic"
                /\ UNCHANGED <<spawns, gi, attempts>>
           ELSE LET newCircle == [X |-> pos[1], Y |-> pos[2], Radius |-> config.SpawnR]
                IN  IF canPlaceCircle(config, spawns, bedrooms, newCircle)
                    THEN /\ spawns' = Append(spawns, newCircle)
                         /\ gi' = gi + 1
                         /\ attempts' = 0
                         /\ gpc' = gpc
                    ELSE /\ attempts' = attempts + 1
                         /\ UNCHANGED <<spawns, gi, gpc>>
    /\ UNCHANGED <<config, bedrooms, genErr>>
    /\ UNCHANGED notPack

\* the attempts of a spawn are used up: Generate returns its error
SpawnExhausted ==
    /\ gpc = "spawns"
    /\ gi < config.Spawns
    /\ attempts >= AttemptBudget
    /\ gpc' = "failed"
    /\ genErr' = [kind |-> "spawn", index |-> gi + 1]
    /\ UNCHANGED <<config, spawns, bedrooms, gi, attempts>>
    /\ UNCHANGED notPack

\* the spawn loop is over: the bedroom loop starts
SpawnsDone ==
    /\ gpc = "spawns"
    /\ gi >= config.Spawns
    /\ gpc' = "bedrooms"
    /\ gi' = 0
    /\ attempts' = 0
    /\ UNCHANGED <<config, spawns, bedrooms, genErr>>
    /\ UNCHANGED notPack

\* one pass of the attempts loop of the bedroom loop
BedroomAttempt ==
    /\ gpc = "bedrooms"
    /\ gi < config.Bedrooms
    /\ attempts < AttemptBudget
    /\ \E pos \in proposals(config, spawns, bedrooms, config.BedroomR) :
           IF pos = "panic"
           THEN /\ gpc' = "panic"
                /\ UNCHANGED <<bedrooms, gi, attempts>>
           ELSE LET newCircle == [X |-> pos[1], Y |-> pos[2], Radius |-> config.BedroomR]
                IN  IF canPlaceCircle(config, spawns, bedrooms, newCircle)
                    THEN /\ bedrooms' = Append(bedrooms, newCircle)
                         /\ gi' = gi + 1
                         /\ attempts' = 0
                         /\ gpc' = gpc
                    ELSE /\ attempts' = attempts + 1
                         /\ UNCHANGED <<bedrooms, gi, gpc>>
    /\ UNCHANGED <<config, spawns, genErr>>
    /\ UNCHANGED notPack

\* the attempts of a bedroom are used up: Generate returns its error
BedroomExhausted ==
    /\ gpc = "bedrooms"
    /\ gi < config.Bedrooms
    /\ attempts >= AttemptBudget
    /\ gpc' = "failed"
    /\ genErr' = [kind |-> "bedroom", index |-> gi + 1]
    /\ UNCHANGED <<config, spawns, bedrooms, gi, attempts>>
    /\ UNCHANGED notPack

\* the bedroom loop is over: Generate returns nil
GenerateDone ==
    /\ gpc = "bedrooms"
    /\ gi >= config.Bedrooms
    /\ gpc' = "done"
    /\ genErr' = "nil"
    /\ UNCHANGED <<config, spawns, bedrooms, gi, attempts>>
    /\ UNCHANGED notPack

-----------------------------------------------------------------------------
(* generateCircles of the image server.                                    *)

\* Circle.intersects
intersects(c1, c2) ==
    LET dx == c1.X - c2.X
        dy == c1.Y - c2.Y
    IN  sqrtLess(dx * dx + dy * dy, c1.Radius + c2.Radius)

\* rand.Intn(mg.Width*mg.CellSize-2*radius) + radius and the same for y
imgPosition(m, radius) ==
    IF m.Width * m.CellSize - 2 * radius <= 0 \/ m.Height * m.CellSize - 2 * radius <= 0
    THEN {"panic"}
    ELSE {<<x, y>> : x \in radius .. m.Width * m.CellSize - radius - 1,
                     y \in radius .. m.Height * m.CellSize - radius - 1}

\* the inner loop of tryPlace: no circle placed so far intersects newC
RECURSIVE imgCanPlaceFrom(_, _, _)
imgCanPlaceFrom(newC, cs, k) ==
    IF k > Len(cs) THEN TRUE
    ELSE IF intersects(newC, cs[k]) THEN FALSE
    ELSE imgCanPlaceFrom(newC, cs, k + 1)

imgCanPlace(newC, cs) == imgCanPlaceFrom(newC, cs, 1)

\* the parameters mapHandler accepts: every one positive
ImgConfigs ==
    [Width : 1 .. MaxImgDim, Height : 1 .. MaxImgDim,
     SpawnCount : 1 .. MaxImgCount, BedroomCount : 1 .. MaxImgCount,
     SpawnRadius : 1 .. MaxImgRadius, BedroomRadius : 1 .. MaxImgRadius,
     CellSize : 1 .. MaxCellSize]

InitImage ==
    /\ mg \in ImgConfigs
    /\ icircles = <<>>
    /\ ipc = "spawns"
    /\ iattempts = 0
    /\ InitSimIdle
    /\ InitPackIdle
    /\ InitStoreIdle
    /\ InitEpochIdle
    /\ InitSliceIdle
    /\ InitPlayerIdle
    /\ InitNavIdle
    /\ InitMenuIdle

\* one pass of the loop of tryPlace(count, radius, isSpawn)
tryPlacePass(count, radius, isSpawn) ==
    /\ Len(icircles) < count
    /\ iattempts < ImgAttemptBudget
    /\ \E pos \in imgPosition(mg, radius) :
           IF pos = "panic"
           THEN /\ ipc' = "panic"
                /\ UNCHANGED <<icircles, iattempts>>
           ELSE LET newC == [X |-> pos[1], Y |-> pos[2], Radius |-> radius, IsSpawn |-> isSpawn]
                IN  /\ iattempts' = iattempts + 1
                    /\ icircles' = IF imgCanPlace(newC, icircles)
                                   THEN Append(icircles, newC)
                                   ELSE icircles
                    /\ ipc' = ipc
    /\ UNCHANGED mg
    /\ UNCHANGED notImg

\* the loop of tryPlace(count, ...) is over
tryPlaceOver(count) == ~(Len(icircles) < count /\ iattempts < ImgAttemptBudget)

ImgSpawnPass ==
    /\ ipc = "spawns"
    /\ tryPlacePass(mg.SpawnCount, mg.SpawnRadius, TRUE)

\* tryPlace of the spawns returns, tryPlace of the bedrooms starts
ImgSpawnsOver ==
    /\ ipc = "spawns"
    /\ tryPlaceOver(mg.SpawnCount)
    /\ ipc' = "bedrooms"
    /\ iattempts' = 0
    /\ UNCHANGED <<mg, icircles>>
    /\ UNCHANGED notImg

ImgBedroomPass ==
    /\ ipc = "bedrooms"
    /\ tryPlacePass(mg.SpawnCount + mg.BedroomCount, mg.BedroomRadius, FALSE)

\* tryPlace of the bedrooms returns; generateCircles returns the circles or its error
ImgReturn ==
    /\ ipc = "bedrooms"
    /\ tryPlaceOver(mg.SpawnCount + mg.BedroomCount)
    /\ ipc' = IF Len(icircles) < mg.SpawnCount + mg.BedroomCount THEN "failed" ELSE "done"
    /\ UNCHANGED <<mg, icircles, iattempts>>
    /\ UNCHANGED notImg

NextPack ==
    \/ PlaceCentre
    \/ SpawnAttempt
    \/ SpawnExhausted
    \/ SpawnsDone
    \/ BedroomAttempt
    \/ BedroomExhausted
    \/ GenerateDone
    \/ ImgSpawnPass
    \/ ImgSpawnsOver
    \/ ImgBedroomPass
    \/ ImgReturn

SpecPack == (InitPack \/ InitImage) /\ [][NextPack]_vars

-----------------------------------------------------------------------------
(* Generate and moveNumbers from call to return.                           *)

newCircleAt(pos, radius) == [X |-> pos[1], Y |-> pos[2], Radius |-> radius]

\* the proposals of an attempt that canPlaceCircle accepts
accepted(c, sp, bd, radius) ==
    {pos \in proposals(c, sp, bd, radius) :
        pos # "panic" /\ canPlaceCircle(c, sp, bd, newCircleAt(pos, radius))}

\* an attempt can propose a position that canPlaceCircle rejects: then every
\* attempt of the budget can, and the loop ends with placed = false
canExhaust(c, sp, bd, radius) ==
    \E pos \in proposals(c, sp, bd, radius) :
        pos # "panic" /\ ~canPlaceCircle(c, sp, bd, newCircleAt(pos, radius))

\* how a placement loop can end short of its count
loopFailures(c, sp, bd, radius, kind, index) ==
    (IF \E pos \in proposals(c, sp, bd, radius) : pos = "panic"
     THEN {[err |-> "panic", index |-> index, circles |-> <<>>]} ELSE {})
    \cup (IF canExhaust(c, sp, bd, radius)
          THEN {[err |-> kind, index |-> index, circles |-> <<>>]} ELSE {})

\* the bedroom loop from i = Len(bd) on
RECURSIVE bedroomLoop(_, _, _)
bedroomLoop(c, sp, bd) ==
    IF Len(bd) >= c.Bedrooms
    THEN {[err |-> "nil", index |-> 0, circles |-> getAllCircles(sp, bd)]}
    ELSE loopFailures(c, sp, bd, c.BedroomR, "bedroom", Len(bd) + 1)
         \cup UNION {bedroomLoop(c, sp, Append(bd, newCircleAt(pos, c.BedroomR))) :
                        pos \in accepted(c, sp, bd, c.BedroomR)}

\* the spawn loop from i = Len(sp) on, then the bedroom loop
RECURSIVE spawnLoop(_, _)
spawnLoop(c, sp) ==
    IF Len(sp) >= c.Spawns
    THEN bedroomLoop(c, sp, <<>>)
    ELSE loopFailures(c, sp, <<>>, c.SpawnR, "spawn", Len(sp) + 1)
         \cup UNION {spawnLoop(c, Append(sp, newCircleAt(pos, c.SpawnR))) :
                        pos \in accepted(c, sp, <<>>, c.SpawnR)}

\* NewMapGenerator(c).Generate() and getAllCircles: the ways the call can
\* end: err "nil" with the circles, err "spawn" or "bedroom" with the index
\* of the error message, or "panic"
Generate(c) ==
    LET center == [X |-> c.Width \div 2, Y |-> c.Height \div 2, Radius |-> c.SpawnR]
    IN  spawnLoop(c, IF c.Spawns > 0 /\ canPlaceCircle(c, <<>>, <<>>, center)
                     THEN <<center>> ELSE <<>>)

\* the values newState can have after the pass of the token loop for t
tokenOutcomes(ns, t, c, cs, sp) ==
    LET speed     == tokenSpeed(t.val, sp)
        neighbors == getNeighbors(t.X, t.Y, c)
    IN  (IF speed > 0
         THEN {moveToken(ns, t, TRUE, Shuffled(neighbors, p), cs) :
                  p \in IndexPerms[Len(neighbors)]}
         ELSE {})
        \cup (IF speed < 100 THEN {moveToken(ns, t, FALSE, <<>>, cs)} ELSE {})

\* the token loop from the k-th token on, then the result loop
RECURSIVE movedFrom(_, _, _, _, _, _)
movedFrom(ns, toks, k, c, cs, sp) ==
    IF k > Len(toks) THEN {moveResult(ns, c)}
    ELSE UNION {movedFrom(ns2, toks, k + 1, c, cs, sp) :
                   ns2 \in tokenOutcomes(ns, toks[k], c, cs, sp)}

\* moveNumbers: the populations one call can return
moveNumbers(c, cs, cls, sp) ==
    IF Len(sp) = 0 THEN {noSpeedsResult(cls, c)}
    ELSE movedFrom(emptyState(c), Tokens(cls), 1, c, cs, sp)

-----------------------------------------------------------------------------
(* SpecStore: the handlers of the API server against the tables maps and   *)
(* map_cells, one request after another.  A row of maps is                 *)
(* [config, circles, hasSpeeds, speeds, epoch]; hasSpeeds is FALSE while   *)
(* the column speeds holds its default ''.  The store answers every        *)
(* statement.  The answer codes: "ok" is 200, "config_error" and           *)
(* "packing_exhausted" are the two 400 answers, "not_found" is 404,        *)
(* "aborted" is a handler that panicked.                                   *)

\* the row the INSERT of createMapHandler adds: speeds and epoch by default
newMapRow(c, cs) ==
    [config |-> c, circles |-> cs, hasSpeeds |-> FALSE, speeds |-> <<>>, epoch |-> 0]

\* a variant of createResult that inserts the row whatever Generate
\* returned; C11 tells it from createResult
createResult_alwaysInserts(ms, mc, c, g) ==
    [maps |-> Append(ms, newMapRow(c, g.circles)), mapCells |-> Append(mc, <<>>),
     code |-> IF g.err = "nil" THEN "ok"
              ELSE IF g.err = "panic" THEN "aborted" ELSE "packing_exhausted",
     generated |-> TRUE]

\* createMapHandler from the return of Generate on
createResult(ms, mc, c, g) ==
    IF g.err = "nil"
    THEN [maps |-> Append(ms, newMapRow(c, g.circles)), mapCells |-> Append(mc, <<>>),
          code |-> "ok", generated |-> TRUE]
    ELSE [maps |-> ms, mapCells |-> mc,
          code |-> IF g.err = "panic" THEN "aborted" ELSE "packing_exhausted",
          generated |-> TRUE]

createMapHandler(ms, mc, c) ==
    IF ~validateConfig(c)
    THEN {[maps |-> ms, mapCells |-> mc, code |-> "config_error", generated |-> FALSE]}
    ELSE {createResult(ms, mc, c, g) : g \in Generate(c)}

\* saveCellsToDB: the rows of the map replaced by the cells that hold a token
saveCellsToDB(mc, mapID, cls) ==
    [mc EXCEPT ![mapID] = SelectSeq(cls, LAMBDA cell : Len(cell.Vals) > 0)]

loadCellsFromDB(mc, mapID) == mc[mapID]

\* SELECT ... FROM maps WHERE id = ? finds a row
mapExists(ms, mapID) == mapID \in 1 .. Len(ms)

distributeHandler(ms, mc, mapID, ps) ==
    IF ~mapExists(ms, mapID)
    THEN {[maps |-> ms, mapCells |-> mc, code |-> "not_found"]}
    ELSE {[maps |-> ms, mapCells |-> saveCellsToDB(mc, mapID, cls), code |-> "ok"] :
             cls \in generateDistribution(ms[mapID].config, ms[mapID].circles, ps)}

\* a variant of validateSpeeds without the upper limit; C18 tells it from
\* validateSpeeds
validateSpeeds_noUpperLimit(sp) ==
    Len(sp) # 0 /\ \A i \in 1 .. Len(sp) : ~(sp[i] < 0)

validateSpeeds(sp) ==
    Len(sp) # 0 /\ \A i \in 1 .. Len(sp) : ~(sp[i] < 0 \/ sp[i] > 100)

setSpeedsHandler(ms, mc, mapID, sp) ==
    IF ~validateSpeeds(sp)
    THEN [maps |-> ms, mapCells |-> mc, code |-> "config_error"]
    ELSE IF ~mapExists(ms, mapID)
    THEN [maps |-> ms, mapCells |-> mc, code |-> "not_found"]
    ELSE [maps |-> [ms EXCEPT ![mapID].hasSpeeds = TRUE, ![mapID].speeds = sp],
          mapCells |-> mc, code |-> "ok"]

\* []float64{90.0, 10.0} of newEpochHandler, in hundredths
defaultProbabilities == <<9000, 1000>>

\* a variant of nextEpoch that writes the epoch back as it read it; C14
\* tells it from nextEpoch
nextEpoch_kept(epoch) == epoch

\* currentEpoch++ of newEpochHandler
nextEpoch(epoch) == epoch + 1

newEpochHandler(ms, mc, mapID) ==
    IF ~mapExists(ms, mapID)
    THEN {[maps |-> ms, mapCells |-> mc, code |-> "not_found"]}
    ELSE LET m       == ms[mapID]
             sp      == IF m.hasSpeeds /\ m.speeds # <<>> THEN m.speeds ELSE <<>>
             loaded  == loadCellsFromDB(mc, mapID)
             started == IF Len(loaded) = 0
                        THEN generateDistribution(m.config, m.circles, defaultProbabilities)
                        ELSE {loaded}
             moved   == IF Len(sp) > 0
                        THEN UNION {moveNumbers(m.config, m.circles, cls, sp) : cls \in started}
                        ELSE started
         IN  {[maps |-> [ms EXCEPT ![mapID].epoch = nextEpoch(m.epoch)],
               mapCells |-> saveCellsToDB(mc, mapID, cls), code |-> "ok"] : cls \in moved}

\* the Config of a create request
StoreConfig(w, h, s, b, sr) ==
    [Width |-> w, Height |-> h, Spawns |-> s, Bedrooms |-> b,
     SpawnR |-> sr, BedroomR |-> 0, MaxGap |-> 0]

\* Configs that validateConfig rejects, Configs under which Generate
\* succeeds, one under which it panics and one under which it returns its error
StoreConfigs ==
    {StoreConfig(0, 1, 0, 0, 0), StoreConfig(101, 1, 0, 0, 0), StoreConfig(1, 1, -1, 0, 0),
     StoreConfig(1, 1, 0, 0, 0), StoreConfig(2, 1, 0, 0, 0), StoreConfig(2, 1, 1, 0, 0),
     StoreConfig(2, 1, 0, 1, 0),
     StoreConfig(2, 1, 1, 0, 1), StoreConfig(3, 3, 2, 0, 1)}

\* map ids of the requests: 0 is never a row id
MapIDs == 0 .. MaxMaps

\* probability vectors of the distribute requests, hundredths
StoreProbVectors == {<<>>, <<100>>, <<200>>}

\* speed tables of the speeds requests, percent
StoreSpeedTables == {<<>>, <<-1>>, <<101>>, <<0>>, <<100>>, <<100, 0>>}

InitStore ==
    /\ maps = <<>>
    /\ mapCells = <<>>
    /\ resp = [op |-> "none", id |-> 0, code |-> "none", generated |-> FALSE,
               probabilities |-> <<>>, speeds |-> <<>>]
    /\ before = [maps |-> <<>>, mapCells |-> <<>>]
    /\ advances = <<>>
    /\ fresh = <<>>
    /\ InitSimIdle
    /\ InitPackIdle
    /\ InitImgIdle
    /\ InitEpochIdle
    /\ InitSliceIdle
    /\ InitPlayerIdle
    /\ InitNavIdle
    /\ InitMenuIdle

\* POST /api/maps
CreateMap ==
    \E c \in StoreConfigs :
        \E out \in createMapHandler(maps, mapCells, c) :
            /\ Len(out.maps) <= MaxMaps
            /\ maps' = out.maps
            /\ mapCells' = out.mapCells
            /\ resp' = [op |-> "create", id |-> 0, code |-> out.code,
                        generated |-> out.generated, probabilities |-> <<>>, speeds |-> <<>>]
            /\ before' = [maps |-> maps, mapCells |-> mapCells]
            /\ advances' = IF Len(out.maps) > Len(maps) THEN Append(advances, 0) ELSE advances
            /\ fresh' = IF Len(out.maps) > Len(maps) THEN Append(fresh, FALSE) ELSE fresh
            /\ UNCHANGED notStore

\* POST /api/distribute
DistributeRequest ==
    \E mapID \in MapIDs, ps \in StoreProbVectors :
        \E out \in distributeHandler(maps, mapCells, mapID, ps) :
            /\ maps' = out.maps
            /\ mapCells' = out.mapCells
            /\ resp' = [op |-> "distribute", id |-> mapID, code |-> out.code,
                        generated |-> FALSE, probabilities |-> ps, speeds |-> <<>>]
            /\ before' = [maps |-> maps, mapCells |-> mapCells]
            /\ fresh' = IF out.code = "ok" THEN [fresh EXCEPT ![mapID] = TRUE] ELSE fresh
            /\ UNCHANGED advances
            /\ UNCHANGED notStore

\* POST /api/speeds
SetSpeedsRequest ==
    \E mapID \in MapIDs, sp \in StoreSpeedTables :
        LET out == setSpeedsHandler(maps, mapCells, mapID, sp)
        IN  /\ maps' = out.maps
            /\ mapCells' = out.mapCells
            /\ resp' = [op |-> "speeds", id |-> mapID, code |-> out.code,
                        generated |-> FALSE, probabilities |-> <<>>, speeds |-> sp]
            /\ before' = [maps |-> maps, mapCells |-> mapCells]
            /\ UNCHANGED <<advances, fresh>>
            /\ UNCHANGED notStore

\* POST /api/newEpoch
NewEpochRequest ==
    \E mapID \in MapIDs :
        /\ mapExists(maps, mapID) => maps[mapID].epoch <= MaxStoreEpoch
        /\ \E out \in newEpochHandler(maps, mapCells, mapID) :
               /\ maps' = out.maps
               /\ mapCells' = out.mapCells
               /\ resp' = [op |-> "newEpoch", id |-> mapID, code |-> out.code,
                           generated |-> FALSE, probabilities |-> <<>>, speeds |-> <<>>]
               /\ before' = [maps |-> maps, mapCells |-> mapCells]
               /\ advances' = IF out.code = "ok"
                              THEN [advances EXCEPT ![mapID] = @ + 1] ELSE advances
               /\ fresh' = IF out.code = "ok" THEN [fresh EXCEPT ![mapID] = FALSE] ELSE fresh
               /\ UNCHANGED notStore

NextStore ==
    \/ CreateMap
    \/ DistributeRequest
    \/ SetSpeedsRequest
    \/ NewEpochRequest

SpecStore == InitStore /\ [][NextStore]_vars

-----------------------------------------------------------------------------
(* SpecEpoch: net/http runs every request in a goroutine of its own, and   *)
(* newEpochHandler takes no lock: the statements of two requests           *)
(* interleave.  One statement of database/sql is one step; the             *)
(* transaction of saveCellsToDB commits as one step or is rolled back.     *)
(* Any statement can return an error.                                      *)

Requests == {1, 2}

\* the rows of map 1 when the requests arrive
EpochPopulations ==
    {<<>>,
     <<[X |-> 0, Y |-> 0, Vals |-> <<0>>]>>,
     <<[X |-> 0, Y |-> 0, Vals |-> <<0>>], [X |-> 1, Y |-> 0, Vals |-> <<1, 0>>]>>}

EpochSpeedTables == {<<>>, <<0>>, <<100>>}

\* a request that no statement has run for yet
readyHandler(mapID) ==
    [pc |-> "ready", mapID |-> mapID, row |-> <<>>, cells |-> <<>>, currentEpoch |-> 0]

InitEpoch ==
    /\ \E sp \in EpochSpeedTables :
           maps = <<[config |-> StoreConfig(2, 1, 0, 0, 0), circles |-> <<>>,
                     hasSpeeds |-> sp # <<>>, speeds |-> sp, epoch |-> 0]>>
    /\ mapCells \in {<<cls>> : cls \in EpochPopulations}
    /\ before = [maps |-> maps, mapCells |-> mapCells]
    /\ hs \in [Requests -> {readyHandler(mapID) : mapID \in 1 .. MaxMaps + 1}]
    /\ resp = [op |-> "off", id |-> 0, code |-> "none", generated |-> FALSE,
               probabilities |-> <<>>, speeds |-> <<>>]
    /\ advances = <<>>
    /\ fresh = <<>>
    /\ InitSimIdle
    /\ InitPackIdle
    /\ InitImgIdle
    /\ InitSliceIdle
    /\ InitPlayerIdle
    /\ InitNavIdle
    /\ InitMenuIdle

\* db.QueryRow("SELECT config, circles, speeds, epoch FROM maps ...").Scan
SelectMap(h) ==
    /\ hs[h].pc = "ready"
    /\ hs' = [hs EXCEPT ![h] =
                 IF mapExists(maps, hs[h].mapID)
                 THEN [@ EXCEPT !.pc = "selected", !.row = maps[hs[h].mapID]]
                 ELSE [@ EXCEPT !.pc = "not_found"]]
    /\ UNCHANGED <<maps, mapCells, before>>
    /\ UNCHANGED notEpoch

\* loadCellsFromDB, then generateDistribution for a map without rows,
\* moveNumbers under a speed table, currentEpoch++
LoadAndMove(h) ==
    /\ hs[h].pc = "selected"
    /\ LET m       == hs[h].row
           sp      == IF m.hasSpeeds /\ m.speeds # <<>> THEN m.speeds ELSE <<>>
           loaded  == loadCellsFromDB(mapCells, hs[h].mapID)
           started == IF Len(loaded) = 0
                      THEN generateDistribution(m.config, m.circles, defaultProbabilities)
                      ELSE {loaded}
           moved   == IF Len(sp) > 0
                      THEN UNION {moveNumbers(m.config, m.circles, cls, sp) : cls \in started}
                      ELSE started
       IN  \E cls \in moved :
               hs' = [hs EXCEPT ![h] = [@ EXCEPT !.pc = "moved", !.cells = cls,
                                                  !.currentEpoch = nextEpoch(m.epoch)]]
    /\ UNCHANGED <<maps, mapCells, before>>
    /\ UNCHANGED notEpoch

\* db.Exec("UPDATE maps SET epoch = ? WHERE id = ?", currentEpoch, req.MapID)
UpdateEpoch(h) ==
    /\ hs[h].pc = "moved"
    /\ maps' = [maps EXCEPT ![hs[h].mapID].epoch = hs[h].currentEpoch]
    /\ hs' = [hs EXCEPT ![h].pc = "updated"]
    /\ UNCHANGED <<mapCells, before>>
    /\ UNCHANGED notEpoch

\* saveCellsToDB committed; the handler answers 200 with currentEpoch
SaveCells(h) ==
    /\ hs[h].pc = "updated"
    /\ mapCells' = saveCellsToDB(mapCells, hs[h].mapID, hs[h].cells)
    /\ hs' = [hs EXCEPT ![h].pc = "done"]
    /\ UNCHANGED <<maps, before>>
    /\ UNCHANGED notEpoch

\* the statement the handler is at returns an error (the transaction of
\* saveCellsToDB is rolled back): the handler answers 500 and returns
StatementFails(h) ==
    /\ hs[h].pc \in {"ready", "selected", "moved", "updated"}
    /\ hs' = [hs EXCEPT ![h].pc = "failed"]
    /\ UNCHANGED <<maps, mapCells, before>>
    /\ UNCHANGED notEpoch

NextRequests ==
    \E h \in Requests :
        \/ SelectMap(h)
        \/ LoadAndMove(h)
        \/ UpdateEpoch(h)
        \/ SaveCells(h)
        \/ StatementFails(h)

SpecEpoch == InitEpoch /\ [][NextRequests]_vars

-----------------------------------------------------------------------------
(* SpecSlices: moveNumbers over Go slices.  A slice is [arr, len]: the id  *)
(* of its backing array in heap (0 for a slice without one) and its        *)
(* length; its capacity is the length of heap[arr].  The map state of      *)
(* lines 397-403 holds copies that nothing reads again; its arrays are     *)
(* allocated and not referenced further.                                   *)

\* a slice without a backing array: []int{}
nilSlice == [arr |-> 0, len |-> 0]

\* the elements of a slice
Deref(h, s) == IF s.arr = 0 THEN <<>> ELSE SubSeq(h[s.arr], 1, s.len)

SliceCap(h, s) == IF s.arr = 0 THEN 0 ELSE Len(h[s.arr])

\* a []Cell with its token lists read from the heap
CellValues(h, cls) ==
    [k \in 1 .. Len(cls) |-> [X |-> cls[k].X, Y |-> cls[k].Y, Vals |-> Deref(h, cls[k].Vals)]]

\* a variant of emptyList that starts the list of a coordinate on the array
\* of the input cell of that coordinate, as cell.Vals[:0] would; C26 tells it
\* from emptyList
emptyList_reusesInput(cls, key) ==
    IF \E k \in 1 .. Len(cls) : <<cls[k].X, cls[k].Y>> = key
    THEN [arr |-> cls[CHOOSE k \in 1 .. Len(cls) : <<cls[k].X, cls[k].Y>> = key].Vals.arr,
          len |-> 0]
    ELSE nilSlice

\* newState[key] = []int{} of the initialisation loop
emptyList(cls, key) == nilSlice

\* append(s, v): in place while the array has a free slot, else into a new
\* array of capacity 1 or twice the old one
goAppend(h, s, v) ==
    IF s.len < SliceCap(h, s)
    THEN [heap |-> [h EXCEPT ![s.arr][s.len + 1] = v],
          ref  |-> [arr |-> s.arr, len |-> s.len + 1]]
    ELSE LET newcap == IF SliceCap(h, s) = 0 THEN 1 ELSE 2 * SliceCap(h, s)
         IN  [heap |-> Append(h, Deref(h, s) \o <<v>> \o Repeat(0, newcap - s.len - 1)),
              ref  |-> [arr |-> Len(h) + 1, len |-> s.len + 1]]

\* state[key] = append([]int{}, cell.Vals...) for every cell: the copies
RECURSIVE copiesFrom(_, _, _)
copiesFrom(h, cls, k) ==
    IF k > Len(cls) THEN h
    ELSE copiesFrom(IF cls[k].Vals.len > 0 THEN Append(h, Deref(h, cls[k].Vals)) ELSE h,
                    cls, k + 1)

\* the result loop: the cells whose list holds a token, with that list
RECURSIVE sliceResultFrom(_, _, _)
sliceResultFrom(ns, c, k) ==
    IF k >= c.Width * c.Height THEN <<>>
    ELSE LET key == RowMajor(c, k)
         IN  IF ns[key].len > 0
             THEN <<[X |-> key[1], Y |-> key[2], Vals |-> ns[key]]>> \o sliceResultFrom(ns, c, k + 1)
             ELSE sliceResultFrom(ns, c, k + 1)

\* the token lists of an argument, of types 0 and 1
SliceLists == SeqsUpTo(0 .. MaxType, MaxVals)

\* the argument: the k-th cell's list lies in array k, which has 0 or 1
\* slots past the length of the list
InitSlices ==
    /\ cfg = [Width |-> 2, Height |-> 1]
    /\ circles = <<>>
    /\ speeds \in {<<>>, <<50>>}
    /\ \E ks \in SeqsUpTo(Coords(cfg), MaxCells), spare \in 0 .. 1 :
           \E ls \in [1 .. Len(ks) -> SliceLists] :
               /\ heap = [k \in 1 .. Len(ks) |-> ls[k] \o Repeat(0, spare)]
               /\ inCells = [k \in 1 .. Len(ks) |->
                                [X |-> ks[k][1], Y |-> ks[k][2],
                                 Vals |-> [arr |-> k, len |-> Len(ls[k])]]]
    /\ heapAtCall = heap
    /\ nsRefs = <<>>
    /\ outCells = <<>>
    /\ spc = "called"
    /\ spos = 0
    /\ probabilities = <<>>
    /\ cells = <<>>
    /\ seeded = FALSE
    /\ pc = "off"
    /\ newState = <<>>
    /\ tok = 0
    /\ prevCells = <<>>
    /\ epochs = 0
    /\ InitPackIdle
    /\ InitImgIdle
    /\ InitStoreIdle
    /\ InitEpochIdle
    /\ InitPlayerIdle
    /\ InitNavIdle
    /\ InitMenuIdle

\* the early return of an empty speed table: "return cells"
SliceNoSpeeds ==
    /\ spc = "called"
    /\ Len(speeds) = 0
    /\ outCells' = inCells
    /\ spc' = "returned"
    /\ UNCHANGED <<heap, heapAtCall, inCells, nsRefs, spos>>
    /\ UNCHANGED notSlice

\* moveNumbers up to the token loop: the copies of state, the empty lists
\* of newState
SliceBegin ==
    /\ spc = "called"
    /\ Len(speeds) > 0
    /\ heap' = copiesFrom(heap, inCells, 1)
    /\ nsRefs' = [key \in Coords(cfg) |-> emptyList(inCells, key)]
    /\ spos' = 1
    /\ spc' = "loop"
    /\ UNCHANGED <<heapAtCall, inCells, outCells>>
    /\ UNCHANGED notSlice

\* one pass of the token loop: val is read from the input slice, the
\* destination is the one moveToken gives, the append is goAppend
SliceMove ==
    /\ spc = "loop"
    /\ spos <= Len(Tokens(CellValues(heap, inCells)))
    /\ LET t         == Tokens(CellValues(heap, inCells))[spos]
           speed     == tokenSpeed(t.val, speeds)
           neighbors == getNeighbors(t.X, t.Y, cfg)
           lists     == [key \in DOMAIN nsRefs |-> Deref(heap, nsRefs[key])]
       IN  \E moves \in BOOLEAN :
               /\ moves => speed > 0
               /\ ~moves => speed < 100
               /\ \E p \in IF moves THEN IndexPerms[Len(neighbors)] ELSE {<<>>} :
                      LET next == moveToken(lists, t, moves, Shuffled(neighbors, p), circles)
                          dest == CHOOSE key \in DOMAIN next : next[key] # lists[key]
                          app  == goAppend(heap, nsRefs[dest], t.val)
                      IN  /\ heap' = app.heap
                          /\ nsRefs' = [nsRefs EXCEPT ![dest] = app.ref]
    /\ spos' = spos + 1
    /\ UNCHANGED <<heapAtCall, inCells, outCells, spc>>
    /\ UNCHANGED notSlice

\* the token loop is over: the result loop, return result
SliceEnd ==
    /\ spc = "loop"
    /\ spos > Len(Tokens(CellValues(heap, inCells)))
    /\ outCells' = sliceResultFrom(nsRefs, cfg, 0)
    /\ spc' = "returned"
    /\ UNCHANGED <<heap, heapAtCall, inCells, nsRefs, spos>>
    /\ UNCHANGED notSlice

NextSlices ==
    \/ SliceNoSpeeds
    \/ SliceBegin
    \/ SliceMove
    \/ SliceEnd

SpecSlices == InitSlices /\ [][NextSlices]_vars

-----------------------------------------------------------------------------
(* SpecPlayers: the player requests of the API server against the tables   *)
(* maps and players, one request after another.  The store answers every   *)
(* statement.  The answer codes: "ok" is 200, "not_found" is 404,          *)
(* "no_spawn", "bad_direction" and "out_of_bounds" are the 400 answers.    *)

getSpawnPoints(cs) == SelectSeq(cs, LAMBDA circle : circle.Type = "spawn")

\* the (int(radius*cos(angle)), int(radius*sin(angle))) of getRandomSpawnPoint
\* for radius = 1 + rand.Float64()*float64(R-1): radius lies between 1 and
\* R, R itself left out and 1 included, and every angle can be drawn, so
\* the truncated offsets are those of a point of norm |radius|
spawnOffsets(R) ==
    LET m == Max2(Abs(R), 1)
    IN  {d \in (-m .. m) \X (-m .. m) :
            d[1] * d[1] + d[2] * d[2] < R * R \/ d[1] * d[1] + d[2] * d[2] <= 1}

\* getRandomSpawnPoint: the positions one call can return
getRandomSpawnPoint(sps) ==
    IF Len(sps) = 0 THEN {<<0, 0>>}
    ELSE UNION {{<<sps[k].X + d[1], sps[k].Y + d[2]>> : d \in spawnOffsets(sps[k].Radius)} :
                   k \in 1 .. Len(sps)}

\* spawnPlayerHandler: the ways one request can end
spawnPlayerHandler(ms, pl, mapID) ==
    IF ~mapExists(ms, mapID) THEN {[players |-> pl, code |-> "not_found"]}
    ELSE IF Len(getSpawnPoints(ms[mapID].circles)) = 0
    THEN {[players |-> pl, code |-> "no_spawn"]}
    ELSE {[players |-> Append(pl, [map_id |-> mapID, x |-> pos[1], y |-> pos[2]]),
           code |-> "ok"] : pos \in getRandomSpawnPoint(getSpawnPoints(ms[mapID].circles))}

DirectionNames == {"up", "down", "left", "right"}

\* the switch of movePlayerHandler for one of the four directions
newPosition(x, y, direction) ==
    IF direction = "up" THEN <<x, y - 1>>
    ELSE IF direction = "down" THEN <<x, y + 1>>
    ELSE IF direction = "left" THEN <<x - 1, y>>
    ELSE <<x + 1, y>>

\* movePlayerHandler
movePlayerHandler(ms, pl, playerID, direction) ==
    IF playerID \notin 1 .. Len(pl) THEN [players |-> pl, code |-> "not_found"]
    ELSE IF direction \notin DirectionNames THEN [players |-> pl, code |-> "bad_direction"]
    ELSE LET c   == ms[pl[playerID].map_id].config
             new == newPosition(pl[playerID].x, pl[playerID].y, direction)
         IN  IF new[1] < 0 \/ new[1] >= c.Width \/ new[2] < 0 \/ new[2] >= c.Height
             THEN [players |-> pl, code |-> "out_of_bounds"]
             ELSE [players |-> [pl EXCEPT ![playerID].x = new[1], ![playerID].y = new[2]],
                   code |-> "ok"]

\* Configs of the maps the players are spawned on: spawn circles of radius
\* 1, 0 and -2, and a map without spawn circle
PlayerConfigs ==
    {StoreConfig(3, 3, 1, 0, 1), StoreConfig(2, 2, 1, 0, 0), StoreConfig(2, 1, 1, 0, -2),
     StoreConfig(2, 1, 0, 0, 0)}

\* directions of the move requests
RequestDirections == DirectionNames \cup {"jump"}

InitPlayers ==
    /\ maps = <<>>
    /\ players = <<>>
    /\ presp = [op |-> "none", id |-> 0, direction |-> "", code |-> "none"]
    /\ pbefore = <<>>
    /\ mapCells = <<>>
    /\ resp = [op |-> "off", id |-> 0, code |-> "none", generated |-> FALSE,
               probabilities |-> <<>>, speeds |-> <<>>]
    /\ before = [maps |-> <<>>, mapCells |-> <<>>]
    /\ advances = <<>>
    /\ fresh = <<>>
    /\ InitSimIdle
    /\ InitPackIdle
    /\ InitImgIdle
    /\ InitEpochIdle
    /\ InitSliceIdle
    /\ InitNavIdle
    /\ InitMenuIdle

\* POST /api/maps answered 200
PlayerMap ==
    \E c \in PlayerConfigs :
        \E out \in createMapHandler(maps, <<>>, c) :
            /\ out.code = "ok"
            /\ Len(out.maps) <= MaxMaps
            /\ maps' = out.maps
            /\ presp' = [op |-> "create", id |-> 0, direction |-> "", code |-> out.code]
            /\ pbefore' = players
            /\ UNCHANGED players
            /\ UNCHANGED notPlayers

\* POST /api/player/spawn
SpawnPlayer ==
    \E mapID \in MapIDs :
        \E out \in spawnPlayerHandler(maps, players, mapID) :
            /\ Len(out.players) <= MaxPlayers
            /\ players' = out.players
            /\ presp' = [op |-> "spawn", id |-> mapID, direction |-> "", code |-> out.code]
            /\ pbefore' = players
            /\ UNCHANGED maps
            /\ UNCHANGED notPlayers

\* POST /api/player/{id}/move
MovePlayer ==
    \E playerID \in 0 .. MaxPlayers, direction \in RequestDirections :
        LET out == movePlayerHandler(maps, players, playerID, direction)
        IN  /\ players' = out.players
            /\ presp' = [op |-> "move", id |-> playerID, direction |-> direction,
                         code |-> out.code]
            /\ pbefore' = players
            /\ UNCHANGED maps
            /\ UNCHANGED notPlayers

NextPlayers ==
    \/ PlayerMap
    \/ SpawnPlayer
    \/ MovePlayer

SpecPlayers == InitPlayers /\ [][NextPlayers]_vars

-----------------------------------------------------------------------------
(* SpecNav: PersistentNavigationManager.  PushMenu, PopMenu and            *)
(* cleanupCache hold pnm.mutex from their first statement to their return  *)
(* and are one step each.  A saveToDBAsync goroutine takes no lock: its    *)
(* json.Marshal and its db.Exec are one step each, at any time after the   *)
(* call that started it.  A []string is [arr, off, len]: its backing array *)
(* in navHeap, the slots before its first element and its length; a slot   *)
(* that holds no element holds "".  The store answers every statement.     *)
(* Time is the order of the deadlines: TimeoutElapses passes the earliest  *)
(* deadline of cacheTTL; after 24 hours without a call every deadline has  *)
(* passed and every row of user_navigation is older than the maxAge of     *)
(* cleanupOldNavigationData.                                               *)

\* the elements of a []string
navDeref(h, s) == IF s.len = 0 THEN <<>> ELSE SubSeq(h[s.arr], s.off + 1, s.off + s.len)

navCap(h, s) == IF s.arr = 0 THEN 0 ELSE Len(h[s.arr]) - s.off

\* the capacity the runtime gives an array asked to hold n strings: the
\* request rounded up to a size class of the allocator
roundCap(n) ==
    IF n <= 16 THEN n ELSE IF n <= 32 THEN n + (n % 2) ELSE 4 * ((n + 3) \div 4)

\* append(s, v): in place while the array has a free slot, else into a new
\* array of capacity 1 or twice the old one
navAppend(h, s, v) ==
    IF s.len < navCap(h, s)
    THEN [heap |-> [h EXCEPT ![s.arr][s.off + s.len + 1] = v],
          ref  |-> [arr |-> s.arr, off |-> s.off, len |-> s.len + 1]]
    ELSE LET newcap == IF navCap(h, s) = 0 THEN 1 ELSE roundCap(2 * navCap(h, s))
         IN  [heap |-> Append(h, navDeref(h, s) \o <<v>> \o Repeat("", newcap - s.len - 1)),
              ref  |-> [arr |-> Len(h) + 1, off |-> 0, len |-> s.len + 1]]

\* the slice json.Unmarshal builds for a stored stack: one append per element
RECURSIVE unmarshalFrom(_, _, _, _)
unmarshalFrom(h, s, stack, k) ==
    IF k > Len(stack) THEN [heap |-> h, ref |-> s]
    ELSE LET a == navAppend(h, s, stack[k])
         IN  unmarshalFrom(a.heap, a.ref, stack, k + 1)

emptyStack == [arr |-> 0, off |-> 0, len |-> 0]

\* m without the key u
deleteKey(m, u) == [x \in DOMAIN m \ {u} |-> m[x]]

\* m with m[u] = v
setKey(m, u, v) == [x \in DOMAIN m \cup {u} |-> IF x = u THEN v ELSE m[x]]

\* the order of the deadlines after cacheTTL[u] = time.Now().Add(cacheTimeout)
deadlineLast(order, u) == Append(SelectSeq(order, LAMBDA x : x # u), u)

\* loadFromDB on the manager state st
loadFromDB(st, db, u) ==
    IF u \notin DOMAIN db THEN [st EXCEPT !.stack = emptyStack]
    ELSE LET b == unmarshalFrom(st.heap, emptyStack, db[u].stack, 1)
         IN  [heap |-> b.heap, cache |-> setKey(st.cache, u, b.ref),
              cacheTTL |-> setKey(st.cacheTTL, u, "live"),
              ttlOrder |-> deadlineLast(st.ttlOrder, u), stack |-> b.ref]

\* getStackFromCacheOrDB on the manager state st: the state it leaves, with
\* the slice it returns in the field stack
getStackFromCacheOrDB(st, db, u) ==
    IF u \in DOMAIN st.cache
    THEN IF u \in DOMAIN st.cacheTTL /\ st.cacheTTL[u] = "live"
         THEN [st EXCEPT !.stack = st.cache[u]]
         ELSE loadFromDB([st EXCEPT !.cache = deleteKey(@, u),
                                    !.cacheTTL = deleteKey(@, u),
                                    !.ttlOrder = SelectSeq(@, LAMBDA x : x # u)], db, u)
    ELSE loadFromDB(st, db, u)

\* a variant of trimmed that trims a stack only once it is longer than
\* maxStackDepth; C34 tells it from trimmed
trimmed_onlyPast(s) ==
    IF s.len > maxStackDepth
    THEN [arr |-> s.arr, off |-> s.off + s.len - (maxStackDepth - 5), len |-> maxStackDepth - 5]
    ELSE s

\* the depth limit of PushMenu: stack[len(stack)-keepSize:]
trimmed(s) ==
    IF s.len >= maxStackDepth
    THEN [arr |-> s.arr, off |-> s.off + s.len - (maxStackDepth - 5), len |-> maxStackDepth - 5]
    ELSE s

\* the go statement: a goroutine holding userID and the slice
started(sv, u, ref) == Append(sv, [userID |-> u, ref |-> ref, done |-> FALSE, json |-> <<>>])

\* PushMenu from the loaded stack on: the state, the goroutines, and whether
\* the call stored a stack
pushLoaded(g, sv, u, menuID) ==
    LET stack == navDeref(g.heap, g.stack)
    IN  IF Len(stack) > 0 /\ stack[Len(stack)] = menuID
        THEN [st |-> g, saves |-> sv, stored |-> FALSE]
        ELSE LET a == navAppend(g.heap, trimmed(g.stack), menuID)
             IN  [st |-> [heap |-> a.heap, cache |-> setKey(g.cache, u, a.ref),
                          cacheTTL |-> setKey(g.cacheTTL, u, "live"),
                          ttlOrder |-> deadlineLast(g.ttlOrder, u), stack |-> a.ref],
                  saves |-> started(sv, u, a.ref), stored |-> TRUE]

\* a variant of popLoaded that pops a stack of one entry as well; C35 tells
\* it from popLoaded
popLoaded_toEmpty(g, sv, u) ==
    IF g.stack.len < 1
    THEN [st |-> g, saves |-> sv, stored |-> FALSE, prevMenu |-> "", ok |-> FALSE]
    ELSE LET ref == [g.stack EXCEPT !.len = @ - 1]
         IN  [st |-> [g EXCEPT !.cache = setKey(@, u, ref),
                               !.cacheTTL = setKey(@, u, "live"),
                               !.ttlOrder = deadlineLast(@, u), !.stack = ref],
              saves |-> started(sv, u, ref), stored |-> TRUE,
              prevMenu |-> IF ref.len = 0 THEN "" ELSE navDeref(g.heap, ref)[ref.len],
              ok |-> TRUE]

\* PopMenu from the loaded stack on
popLoaded(g, sv, u) ==
    IF g.stack.len <= 1
    THEN [st |-> g, saves |-> sv, stored |-> FALSE, prevMenu |-> "", ok |-> FALSE]
    ELSE LET ref == [g.stack EXCEPT !.len = @ - 1]
         IN  [st |-> [g EXCEPT !.cache = setKey(@, u, ref),
                               !.cacheTTL = setKey(@, u, "live"),
                               !.ttlOrder = deadlineLast(@, u), !.stack = ref],
              saves |-> started(sv, u, ref), stored |-> TRUE,
              prevMenu |-> navDeref(g.heap, ref)[ref.len], ok |-> TRUE]

\* the arrays a manager state and its goroutines refer to, in the order of
\* the first reference; 0 where there is none
navRefs(c, sv) ==
    [k \in 1 .. MaxNavUsers |-> IF k \in DOMAIN c THEN c[k] ELSE emptyStack]
    \o [i \in 1 .. Len(sv) |-> IF sv[i].done THEN emptyStack ELSE sv[i].ref]

RECURSIVE firstArrays(_, _)
firstArrays(refs, k) ==
    IF k > Len(refs) THEN <<>>
    ELSE IF refs[k].arr = 0 \/ \E j \in 1 .. k - 1 : refs[j].arr = refs[k].arr
         THEN firstArrays(refs, k + 1)
         ELSE <<refs[k].arr>> \o firstArrays(refs, k + 1)

\* The arrays nothing refers to are collected and the others numbered in
\* the order of navRefs; a slot no slice reaches is cleared.  What a later
\* step can read is unchanged.
collected(h, c, sv) ==
    LET refs   == navRefs(c, sv)
        order  == firstArrays(refs, 1)
        id(a)  == IF a = 0 THEN 0 ELSE CHOOSE k \in 1 .. Len(order) : order[k] = a
        move(r) == [r EXCEPT !.arr = id(@)]
        reached(a, j) == \E k \in 1 .. Len(refs) :
                             refs[k].arr = a /\ refs[k].off < j /\ j <= refs[k].off + refs[k].len
    IN  [heap  |-> [k \in 1 .. Len(order) |->
                       [j \in 1 .. Len(h[order[k]]) |->
                           IF reached(order[k], j) THEN h[order[k]][j] ELSE ""]],
         cache |-> [u \in DOMAIN c |-> move(c[u])],
         saves |-> [i \in 1 .. Len(sv) |-> IF sv[i].done THEN sv[i]
                                            ELSE [sv[i] EXCEPT !.ref = move(@)]]]

\* the stacks of the cache
CacheStacks == [u \in DOMAIN cache |-> navDeref(navHeap, cache[u])]

managerState == [heap |-> navHeap, cache |-> cache, cacheTTL |-> cacheTTL,
                 ttlOrder |-> ttlOrder, stack |-> emptyStack]

\* the runs: one user pushing two menus to any depth; one user with three
\* menus and two goroutines at a time; the users that fill the cache
NavRuns ==
    {[users |-> {1}, menus |-> {"a", "b"}, pending |-> 1, depth |-> maxStackDepth + 1],
     [users |-> {1}, menus |-> {"a", "b", "c"}, pending |-> MaxPending, depth |-> MaxRaceDepth],
     [users |-> 1 .. MaxNavUsers, menus |-> {"a"}, pending |-> 1, depth |-> 1]}

InitNav ==
    /\ navRun \in NavRuns
    /\ navHeap = <<>>
    /\ cache = <<>>
    /\ cacheTTL = <<>>
    /\ ttlOrder = <<>>
    /\ userNavigation = <<>>
    /\ saves = <<>>
    /\ navCall = [op |-> "none"]
    /\ latest = <<>>
    /\ InitSimIdle
    /\ InitPackIdle
    /\ InitImgIdle
    /\ InitStoreIdle
    /\ InitEpochIdle
    /\ InitSliceIdle
    /\ InitPlayerIdle
    /\ InitMenuIdle

\* the goroutine a call starts is within the number the run allows
CallFits == Len(saves) < navRun.pending

PushMenu(u, menuID) ==
    LET g   == getStackFromCacheOrDB(managerState, userNavigation, u)
        out == pushLoaded(g, saves, u, menuID)
        col == collected(out.st.heap, out.st.cache, out.saves)
    IN  /\ CallFits
        /\ g.stack.len < navRun.depth
        /\ navHeap' = col.heap
        /\ cache' = col.cache
        /\ cacheTTL' = out.st.cacheTTL
        /\ ttlOrder' = out.st.ttlOrder
        /\ saves' = col.saves
        /\ navCall' = [op |-> "push", userID |-> u, menuID |-> menuID,
                       prevMenu |-> "", ok |-> TRUE]
        /\ latest' = IF out.stored THEN setKey(latest, u, navDeref(out.st.heap, out.st.stack))
                     ELSE latest
        /\ UNCHANGED <<navRun, userNavigation>>
        /\ UNCHANGED notNav

PopMenu(u) ==
    LET g   == getStackFromCacheOrDB(managerState, userNavigation, u)
        out == popLoaded(g, saves, u)
        col == collected(out.st.heap, out.st.cache, out.saves)
    IN  /\ CallFits
        /\ navHeap' = col.heap
        /\ cache' = col.cache
        /\ cacheTTL' = out.st.cacheTTL
        /\ ttlOrder' = out.st.ttlOrder
        /\ saves' = col.saves
        /\ navCall' = [op |-> "pop", userID |-> u, menuID |-> "",
                       prevMenu |-> out.prevMenu, ok |-> out.ok]
        /\ latest' = IF out.stored THEN setKey(latest, u, navDeref(out.st.heap, out.st.stack))
                     ELSE latest
        /\ UNCHANGED <<navRun, userNavigation>>
        /\ UNCHANGED notNav

\* json.Marshal(stack) of the i-th goroutine: the array as it is now
MarshalStack(i) ==
    LET sv  == [saves EXCEPT ![i] = [userID |-> @.userID, ref |-> emptyStack, done |-> TRUE,
                                     json |-> navDeref(navHeap, @.ref)]]
        col == collected(navHeap, cache, sv)
    IN  /\ ~saves[i].done
        /\ navHeap' = col.heap
        /\ cache' = col.cache
        /\ saves' = col.saves
        /\ UNCHANGED <<navRun, cacheTTL, ttlOrder, userNavigation, navCall, latest>>
        /\ UNCHANGED notNav

\* the INSERT ... ON CONFLICT DO UPDATE of the i-th goroutine, which ends it
ExecSave(i) ==
    /\ saves[i].done
    /\ userNavigation' = setKey(userNavigation, saves[i].userID,
                                [stack |-> saves[i].json])
    /\ saves' = SubSeq(saves, 1, i - 1) \o SubSeq(saves, i + 1, Len(saves))
    /\ UNCHANGED <<navRun, navHeap, cache, cacheTTL, ttlOrder, navCall, latest>>
    /\ UNCHANGED notNav

\* the earliest deadline of cacheTTL passes
TimeoutElapses ==
    /\ Len(ttlOrder) > 0
    /\ cacheTTL' = [cacheTTL EXCEPT ![ttlOrder[1]] = "expired"]
    /\ ttlOrder' = Tail(ttlOrder)
    /\ UNCHANGED <<navRun, navHeap, cache, userNavigation, saves, navCall, latest>>
    /\ UNCHANGED notNav

\* cleanupCache: the expired entries go; past maxCacheSize, excess entries
\* in the order the runtime ranges over the map
CleanupCache ==
    LET live   == {u \in DOMAIN cacheTTL : cacheTTL[u] = "live"}
        kept   == [u \in DOMAIN cache \cap (live \cup (DOMAIN cache \ DOMAIN cacheTTL))
                      |-> cache[u]]
        excess == Cardinality(DOMAIN kept) - maxCacheSize + cleanupBuffer
    IN  /\ DOMAIN cache # {}
        /\ \E gone \in SUBSET DOMAIN kept :
               /\ Cardinality(gone) = IF Cardinality(DOMAIN kept) > maxCacheSize
                                      THEN Min2(excess, Cardinality(DOMAIN kept)) ELSE 0
               /\ LET c   == [u \in DOMAIN kept \ gone |-> kept[u]]
                      col == collected(navHeap, c, saves)
                  IN  /\ navHeap' = col.heap
                      /\ cache' = col.cache
                      /\ saves' = col.saves
                      /\ cacheTTL' = [u \in live \ gone |-> "live"]
                      /\ ttlOrder' = SelectSeq(ttlOrder, LAMBDA x : x \notin gone)
        /\ UNCHANGED <<navRun, userNavigation, navCall, latest>>
        /\ UNCHANGED notNav

\* 24 hours pass without a call and cleanupOldNavigationData runs: every
\* deadline of cacheTTL has passed and DELETE FROM user_navigation WHERE
\* updated_at < cutoff finds every row
CleanupOldNavigationData ==
    /\ saves = <<>>
    /\ DOMAIN userNavigation # {}
    /\ cacheTTL' = [u \in DOMAIN cacheTTL |-> "expired"]
    /\ ttlOrder' = <<>>
    /\ userNavigation' = <<>>
    /\ UNCHANGED <<navRun, navHeap, cache, saves, navCall, latest>>
    /\ UNCHANGED notNav

NextNav ==
    \/ \E u \in navRun.users, menuID \in navRun.menus : PushMenu(u, menuID)
    \/ \E u \in navRun.users : PopMenu(u)
    \/ \E i \in 1 .. Len(saves) : MarshalStack(i)
    \/ \E i \in 1 .. Len(saves) : ExecSave(i)
    \/ TimeoutElapses
    \/ CleanupCache
    \/ CleanupOldNavigationData

SpecNav == InitNav /\ [][NextNav]_vars

-----------------------------------------------------------------------------
(***************************************************************************)
(* SpecMenus: HierarchicalNavigation.  RegisterMenu and GetBreadcrumb are  *)
(* called one after another.  A GetBreadcrumb call whose loop comes back   *)
(* to a menu it has already put on the path repeats the same iterations    *)
(* without end: the call does not return.                                  *)
(***************************************************************************)

\* the literal of defineMenuHierarchy: <<menu, parent>>
menuPairs ==
    { <<"channels", "main">>, <<"stats", "main">>, <<"settings", "main">>,
      <<"profile", "main">>, <<"help", "main">>,
      <<"add_channel", "channels">>, <<"list_channels", "channels">>,
      <<"remove_channel", "channels">>, <<"channel_stats", "channels">>,
      <<"daily_stats", "stats">>, <<"weekly_stats", "stats">>,
      <<"monthly_stats", "stats">>, <<"export_stats", "stats">>,
      <<"language", "settings">>, <<"notifications", "settings">>,
      <<"theme", "settings">>, <<"advanced", "settings">>,
      <<"edit_profile", "profile">>, <<"view_profile", "profile">>,
      <<"delete_profile", "profile">>,
      <<"lang_russian", "language">>, <<"lang_english", "language">>,
      <<"notif_channels", "notifications">>, <<"notif_stats", "notifications">>,
      <<"theme_dark", "theme">>, <<"theme_light", "theme">>,
      <<"notif_channels_new", "notif_channels">>,
      <<"notif_channels_update", "notif_channels">>,
      <<"notif_stats_daily", "notif_stats">>,
      <<"notif_stats_weekly", "notif_stats">> }

defineMenuHierarchy ==
    [m \in {p[1] : p \in menuPairs} |-> (CHOOSE p \in menuPairs : p[1] = m)[2]]

\* hn.hierarchy[menuID] = parentID
registerMenu(h, menuID, parentID) ==
    [m \in DOMAIN h \cup {menuID} |-> IF m = menuID THEN parentID ELSE h[m]]

\* the loop of GetBreadcrumb from the test of its condition, current and path
\* as they are there
RECURSIVE climb(_, _, _)
climb(h, current, path) ==
    IF current = "" \/ current = "main"
    THEN [returns |-> TRUE, path |-> path]
    ELSE IF \E k \in 1 .. Len(path) : path[k] = current
    THEN [returns |-> FALSE, path |-> path]
    ELSE IF current \notin DOMAIN h
    THEN [returns |-> TRUE, path |-> <<current>> \o path]
    ELSE climb(h, h[current], <<current>> \o path)

getBreadcrumb(h, menuID) ==
    LET r == climb(h, menuID, <<>>)
    IN  [returns |-> r.returns,
         path    |-> IF r.returns /\ Len(r.path) > 0
                     THEN <<"main">> \o r.path
                     ELSE r.path]

\* the menus and parents the RegisterMenu calls of a run name
RegisteredMenus == {"promo", "channels", "add_channel", "main"}
RegisteredParents == {"main", "channels", "add_channel", "promo", "archive", ""}

InitMenus ==
    /\ hierarchy = defineMenuHierarchy
    /\ registered = 0
    /\ crumb = [op |-> "none"]
    /\ InitSimIdle
    /\ InitPackIdle
    /\ InitImgIdle
    /\ InitStoreIdle
    /\ InitEpochIdle
    /\ InitSliceIdle
    /\ InitPlayerIdle
    /\ InitNavIdle

RegisterMenu(menuID, parentID) ==
    /\ registered < MaxRegistered
    /\ hierarchy' = registerMenu(hierarchy, menuID, parentID)
    /\ registered' = registered + 1
    /\ crumb' = [op |-> "none"]
    /\ UNCHANGED notMenus

GetBreadcrumb(menuID) ==
    LET r == getBreadcrumb(hierarchy, menuID)
    IN  /\ crumb' = [op |-> "breadcrumb", menuID |-> menuID,
                     returns |-> r.returns, path |-> r.path]
        /\ UNCHANGED <<hierarchy, registered>>
        /\ UNCHANGED notMenus

NextMenus ==
    \/ \E menuID \in RegisteredMenus, parentID \in RegisteredParents :
           RegisterMenu(menuID, parentID)
    \/ \E menuID \in DOMAIN hierarchy \cup {"main", "archive"} : GetBreadcrumb(menuID)

SpecMenus == InitMenus /\ [][NextMenus]_vars

-----------------------------------------------------------------------------
(* Vocabulary of the properties.                                           *)

\* capacity of a zone: Exterior 2, Interior 1, Center 0
ZoneCapacity(cellType) == IF cellType = 0 THEN 2 ELSE IF cellType = 1 THEN 1 ELSE 0

RECURSIVE CountAtFrom(_, _, _)
CountAtFrom(cs, key, k) ==
    IF k > Len(cs) THEN 0
    ELSE (IF <<cs[k].X, cs[k].Y>> = key THEN Len(cs[k].Vals) ELSE 0) + CountAtFrom(cs, key, k + 1)

\* number of tokens a population holds at a coordinate
CountAt(cs, key) == CountAtFrom(cs, key, 1)

RECURSIVE TypeCountFrom(_, _, _)
TypeCountFrom(ts, v, k) ==
    IF k > Len(ts) THEN 0
    ELSE (IF ts[k].val = v THEN 1 ELSE 0) + TypeCountFrom(ts, v, k + 1)

\* number of tokens of type v in a population
TypeCount(cs, v) == TypeCountFrom(Tokens(cs), v, 1)

TypesOf(cs) == {Tokens(cs)[k].val : k \in 1 .. Len(Tokens(cs))}

\* no coordinate of the grid holds more tokens than its zone allows
RespectsCapacity(cs) ==
    \A key \in Coords(cfg) :
        CountAt(cs, key) <= ZoneCapacity(getCellType(key[1], key[2], circles))

\* a moveNumbers call has just returned
Advanced == pc = "idle" /\ epochs > 0

\* generateDistribution has returned and nothing has run since
JustSeeded == pc = "idle" /\ seeded /\ epochs = 0

HasPositive(ps) == \E k \in 1 .. Len(ps) : ps[k] > 0

-----------------------------------------------------------------------------
(* Properties of Spec and SpecAdvance.                                     *)

\* C1: after every Advance of a population that Distribute produced, no
\* coordinate holds more tokens than its zone's capacity (Center 0,
\* Interior 1, Exterior 2).
C1_CapacityAfterAdvance == (Advanced /\ Len(speeds) > 0) => RespectsCapacity(cells)

\* C2: Advance with a non-empty speed table keeps the number of tokens of
\* the grid, and the number of tokens of every type, for every in-bounds
\* input population.
C2_Conservation ==
    (Advanced /\ Len(speeds) > 0) =>
        /\ TokenCount(cells) = TokenCount(prevCells)
        /\ \A v \in TypesOf(prevCells) \cup TypesOf(cells) :
               TypeCount(cells, v) = TypeCount(prevCells, v)

\* C2 witness: an Advance that moved a token of a population of two tokens or more
C2_Witness ==
    /\ Advanced
    /\ Len(speeds) > 0
    /\ TokenCount(prevCells) >= 2
    /\ \E key \in Coords(cfg) : CountAt(cells, key) > CountAt(prevCells, key)

\* C3: on a map with one spawn circle and speed table [100], one Advance of
\* the Distribute output keeps the token count, and no cell that was at its
\* zone's capacity before holds more tokens after.
C3_FullCellsGainNothing ==
    (Advanced /\ speeds = <<100>> /\ Len(circles) = 1 /\ circles[1].Radius >= 1) =>
        /\ TokenCount(cells) = TokenCount(prevCells)
        /\ \A key \in Coords(cfg) :
               CountAt(prevCells, key) >= ZoneCapacity(getCellType(key[1], key[2], circles))
                   => CountAt(cells, key) <= CountAt(prevCells, key)

\* C4: Advance with an empty speed table returns its input: the same cells
\* with the same token lists in the same order.
C4_EmptySpeedsNoOp == (Advanced /\ Len(speeds) = 0) => cells = prevCells

\* C4 witness: the no-op Advance of a population that the result loop of
\* moveNumbers would not have returned as it is
C4_Witness ==
    /\ Advanced
    /\ Len(speeds) = 0
    /\ Len(prevCells) = 2
    /\ \E k \in 1 .. Len(prevCells) : Len(prevCells[k].Vals) = 0

\* C8: after Distribute no coordinate holds more tokens than its zone's
\* capacity: Center 0, Interior at most 1, Exterior at most 2.
C8_CapacityAfterDistribute == JustSeeded => RespectsCapacity(cells)

\* C8 witness: a Distribute output with a full Interior cell, a full
\* Exterior cell and an empty Center cell
C8_Witness ==
    /\ JustSeeded
    /\ \E a \in Coords(cfg), b \in Coords(cfg), c \in Coords(cfg) :
           /\ getCellType(a[1], a[2], circles) = 1 /\ CountAt(cells, a) = 1
           /\ getCellType(b[1], b[2], circles) = 0 /\ CountAt(cells, b) = 2
           /\ getCellType(c[1], c[2], circles) = 2 /\ CountAt(cells, c) = 0

\* C9: Distribute returns the empty population exactly when no probability
\* is positive; with a positive probability every Interior cell gets one
\* token and every Exterior cell one or two.  (Stated for maps that have a
\* cell which is not a Center.)
C9_EmptyIffNoPositive ==
    (JustSeeded /\ \E key \in Coords(cfg) : getCellType(key[1], key[2], circles) # 2) =>
        /\ (cells = <<>>) <=> ~HasPositive(probabilities)
        /\ HasPositive(probabilities) =>
               \A key \in Coords(cfg) :
                   LET n == CountAt(cells, key)
                       z == getCellType(key[1], key[2], circles)
                   IN  /\ z = 1 => n = 1
                       /\ z = 0 => n \in {1, 2}

-----------------------------------------------------------------------------
(* Properties of SpecPack.                                                 *)

\* Generate has returned nil: getAllCircles is the circle set of the map
Packed == gpc = "done"

PackedCircles == getAllCircles(spawns, bedrooms)

SquaredDistance(c1, c2) == (c1.X - c2.X) * (c1.X - c2.X) + (c1.Y - c2.Y) * (c1.Y - c2.Y)

\* every two circles of the list are at least the sum of their radii apart
NoOverlap(cs) ==
    \A i \in 1 .. Len(cs), j \in 1 .. Len(cs) :
        i < j => SquaredDistance(cs[i], cs[j])
                     >= (cs[i].Radius + cs[j].Radius) * (cs[i].Radius + cs[j].Radius)

\* C5: the circles of a successful Generate, and the circles that
\* generateCircles of the image server returns, are pairwise at least the
\* sum of their radii apart.
C5_NoOverlap ==
    /\ Packed => NoOverlap(PackedCircles)
    /\ ipc = "done" => NoOverlap(icircles)

\* C5 witness: a successful Generate with two circles of radius 1 that touch
C5_Witness ==
    /\ Packed
    /\ \E i \in 1 .. Len(PackedCircles), j \in 1 .. Len(PackedCircles) :
           /\ i < j
           /\ PackedCircles[i].Radius = 1
           /\ PackedCircles[j].Radius = 1
           /\ SquaredDistance(PackedCircles[i], PackedCircles[j]) = 4

\* C6: every circle of a successful Generate lies within the bounds:
\* x-radius >= 0, y-radius >= 0, x+radius <= width-1, y+radius <= height-1.
C6_WithinBounds ==
    Packed =>
        \A k \in 1 .. Len(PackedCircles) :
            LET c == PackedCircles[k]
            IN  /\ c.X - c.Radius >= 0
                /\ c.Y - c.Radius >= 0
                /\ c.X + c.Radius <= config.Width - 1
                /\ c.Y + c.Radius <= config.Height - 1

\* C6 witness: a successful Generate whose first circle is the one at the
\* centre of the bounds, with another circle that touches the right border
C6_Witness ==
    /\ Packed
    /\ Len(PackedCircles) >= 2
    /\ PackedCircles[1].X = config.Width \div 2
    /\ PackedCircles[1].Y = config.Height \div 2
    /\ PackedCircles[1].Radius >= 1
    /\ \E k \in 2 .. Len(PackedCircles) :
           /\ PackedCircles[k].Radius >= 1
           /\ PackedCircles[k].X + PackedCircles[k].Radius = config.Width - 1

\* C7: for the circles of a successful Generate, getCellType gives every
\* in-bounds coordinate one of the three zone types, and gives Center to
\* every coordinate that is the centre of a circle.
C7_CentreIsCenter ==
    Packed =>
        /\ \A key \in Coords(config) : getCellType(key[1], key[2], PackedCircles) \in {0, 1, 2}
        /\ \A k \in 1 .. Len(PackedCircles) :
               getCellType(PackedCircles[k].X, PackedCircles[k].Y, PackedCircles) = 2

\* some circle of the Config fits nowhere in the bounds
CannotFit(c) ==
    \/ c.Spawns > 0 /\ uniformPosition(c, c.SpawnR) = {"panic"}
    \/ c.Bedrooms > 0 /\ uniformPosition(c, c.BedroomR) = {"panic"}

\* C10: under a Config with a circle that cannot be placed, Generate ends
\* with its error naming the kind and the index of that circle: it does not
\* abort in another way and does not report success.
C10_FailureIsReported ==
    (gpc \in {"done", "failed", "panic"} /\ CannotFit(config)) =>
        /\ gpc = "failed"
        /\ genErr \in [kind : {"spawn", "bedroom"}, index : 1 .. MaxSpawns + MaxBedrooms]

\* C12: a successful Generate followed by getAllCircles gives config.Spawns
\* circles of type spawn and radius SpawnR, then config.Bedrooms circles of
\* type bedroom and radius BedroomR.
C12_CountsKindsRadii ==
    Packed =>
        /\ Len(PackedCircles) = config.Spawns + config.Bedrooms
        /\ \A k \in 1 .. Len(PackedCircles) :
               IF k <= config.Spawns
               THEN PackedCircles[k].Type = "spawn" /\ PackedCircles[k].Radius = config.SpawnR
               ELSE PackedCircles[k].Type = "bedroom" /\ PackedCircles[k].Radius = config.BedroomR

\* C12 witness: a successful Generate of two spawns and two bedrooms of
\* another radius
C12_Witness ==
    /\ Packed
    /\ config.Spawns = 2
    /\ config.Bedrooms = 2
    /\ config.SpawnR # config.BedroomR
    /\ Len(PackedCircles) = 4

\* number of circles of the image server's list with the given IsSpawn and radius
ImgCount(cs, isSpawn, radius) ==
    Cardinality({k \in 1 .. Len(cs) : cs[k].IsSpawn = isSpawn /\ cs[k].Radius = radius})

\* C13: when generateCircles returns its circles, SpawnCount of them have
\* IsSpawn true and radius SpawnRadius, and BedroomCount of them have IsSpawn
\* false and radius BedroomRadius.
C13_ImageCounts ==
    ipc = "done" =>
        /\ ImgCount(icircles, TRUE, mg.SpawnRadius) = mg.SpawnCount
        /\ ImgCount(icircles, FALSE, mg.BedroomRadius) = mg.BedroomCount

\* tokens of type v at a coordinate
TypeCountAt(cs, key, v) ==
    Cardinality({k \in 1 .. Len(Tokens(cs)) :
                    /\ Tokens(cs)[k].X = key[1]
                    /\ Tokens(cs)[k].Y = key[2]
                    /\ Tokens(cs)[k].val = v})

CentreCells(c, cs) == {key \in Coords(c) : getCellType(key[1], key[2], cs) = 2}

\* C19: the tokens at a Center coordinate after Advance are among those it
\* held before: of no type does it hold more.  A Center cell that held no
\* token holds none after.
C19_NothingEntersCentre ==
    (Advanced /\ Len(speeds) > 0) =>
        \A key \in CentreCells(cfg, circles) :
            \A v \in TypesOf(prevCells) \cup TypesOf(cells) :
                TypeCountAt(cells, key, v) <= TypeCountAt(prevCells, key, v)

\* C19 witness: an Advance in which a token left a Center cell and a token
\* moved into a cell next to it
C19_Witness ==
    /\ Advanced
    /\ Len(speeds) > 0
    /\ \E key \in CentreCells(cfg, circles), other \in Coords(cfg) :
           /\ CountAt(cells, key) < CountAt(prevCells, key)
           /\ other # key
           /\ CountAt(cells, other) > CountAt(prevCells, other)

\* the token the running pass of the token loop handles
CurrentToken == Tokens(cells)[tok]

\* no neighbour of the token has room in newState
Stuck(t) ==
    \A k \in 1 .. Len(getNeighbors(t.X, t.Y, cfg)) :
        LET n == getNeighbors(t.X, t.Y, cfg)[k]
        IN  ~canMove(getCellType(n[1], n[2], circles), Len(Lookup(newState, n)))

\* C20: a pass of the token loop appends the token to one list of newState.
\* A token that cannot move (speed 0) or that has no neighbour with room is
\* appended to the list of its own coordinate, however long that list is.
C20_StaysInOwnCell ==
    [][(pc = "moving" /\ tok' = tok + 1) =>
          LET t   == CurrentToken
              own == <<t.X, t.Y>>
          IN  /\ \E key \in Coords(cfg) : newState' = AppendAt(newState, key, t.val)
              /\ (tokenSpeed(t.val, speeds) = 0 \/ Stuck(t))
                     => newState' = AppendAt(newState, own, t.val)]_vars

\* C20 witness: inside the token loop a list of newState is longer than its
\* zone's capacity: a token was appended to its own full list
C20_Witness ==
    /\ pc = "moving"
    /\ \E key \in Coords(cfg) :
           Len(Lookup(newState, key)) > ZoneCapacity(getCellType(key[1], key[2], circles))

-----------------------------------------------------------------------------
(* Properties of SpecStore.                                                *)

StoredIDs == 1 .. Len(maps)

\* the store is as the last request found it
StoreUnchanged == maps = before.maps /\ mapCells = before.mapCells

\* C11: a create request that fails, with a configuration error or with the
\* error of Generate, leaves the tables as they were, and a configuration
\* error is answered before Generate is called.
C11_FailedCreateStoresNothing ==
    (resp.op = "create" /\ resp.code # "ok") =>
        /\ StoreUnchanged
        /\ resp.code = "config_error" => ~resp.generated

\* C11 witness: Generate returned its error while a map with a population
\* was stored
C11_Witness ==
    /\ resp.op = "create"
    /\ resp.code = "packing_exhausted"
    /\ Len(maps) >= 1
    /\ Len(mapCells[1]) > 0

C15_SeededAtEpochZero ==
    /\ DOMAIN mapCells = DOMAIN maps
    /\ \A mapID \in StoredIDs :
           (fresh[mapID] /\ Len(mapCells[mapID]) > 0) => maps[mapID].epoch = 0

\* C16: a newEpoch request for a stored map without a population is
\* answered as an unknown map and changes neither population nor epoch.
C16_AdvanceWithoutPopulation ==
    (/\ resp.op = "newEpoch"
     /\ mapExists(before.maps, resp.id)
     /\ Len(before.mapCells[resp.id]) = 0) =>
        /\ resp.code = "not_found"
        /\ StoreUnchanged

\* a probability vector that is empty or has an entry outside [0, 1]
InvalidProbabilities(ps) == Len(ps) = 0 \/ \E i \in 1 .. Len(ps) : ps[i] < 0 \/ ps[i] > 100

\* C17: a distribute request with an empty or invalid probability vector is
\* answered as a configuration error and leaves the stored population of
\* the map as it was.
C17_InvalidProbabilitiesRejected ==
    (/\ resp.op = "distribute"
     /\ InvalidProbabilities(resp.probabilities)
     /\ mapExists(before.maps, resp.id)
     /\ Len(before.mapCells[resp.id]) > 0) =>
        /\ resp.code = "config_error"
        /\ mapCells = before.mapCells

\* a speed table that is not empty and has every entry in [0, 100]
ValidSpeeds(sp) == Len(sp) > 0 /\ \A i \in 1 .. Len(sp) : sp[i] >= 0 /\ sp[i] <= 100

\* C18: the speeds stored for a map are absent or a valid table, and a
\* speeds request with an invalid table or for an unknown map is rejected
\* and leaves the table maps as it was.
C18_StoredSpeedsValid ==
    /\ \A mapID \in StoredIDs : maps[mapID].hasSpeeds => ValidSpeeds(maps[mapID].speeds)
    /\ (resp.op = "speeds" /\ (~ValidSpeeds(resp.speeds) \/ ~mapExists(before.maps, resp.id)))
           => (resp.code # "ok" /\ maps = before.maps)

\* C18 witness: a table with an entry above 100 was rejected for a map that
\* has a table stored
C18_Witness ==
    /\ resp.op = "speeds"
    /\ resp.speeds = <<101>>
    /\ resp.code = "config_error"
    /\ mapExists(maps, resp.id)
    /\ maps[resp.id].hasSpeeds

-----------------------------------------------------------------------------
(* More properties of Spec and SpecAdvance.                                *)

\* the neighbours of the order whose newState list is shorter than the
\* capacity of their zone
Admitting(ns, order, cs) ==
    {k \in 1 .. Len(order) :
        Len(Lookup(ns, order[k])) < ZoneCapacity(getCellType(order[k][1], order[k][2], cs))}

\* position of the first such neighbour in the order, 0 when there is none
FirstAdmitting(ns, order, cs) ==
    IF Admitting(ns, order, cs) = {} THEN 0
    ELSE CHOOSE k \in Admitting(ns, order, cs) : \A j \in Admitting(ns, order, cs) : k <= j

\* C21: inside moveNumbers, whatever order the shuffle leaves the neighbours
\* of the next token in, a token that tries to move is appended to the first
\* neighbour of that order whose newState list is shorter than its zone's
\* capacity (Exterior 2, Interior 1, Center 0); the lists of the input
\* population do not enter the decision.
C21_FirstFreeNeighbourAdmits ==
    (pc = "moving" /\ tok <= Len(Tokens(cells))) =>
        LET t         == CurrentToken
            neighbors == getNeighbors(t.X, t.Y, cfg)
        IN  \A p \in IndexPerms[Len(neighbors)] :
                LET order == Shuffled(neighbors, p)
                    first == FirstAdmitting(newState, order, circles)
                IN  first # 0 =>
                        moveToken(newState, t, TRUE, order, circles)
                            = AppendAt(newState, order[first], t.val)

\* C21 witness: the first token of the input has been appended to another
\* cell whose list in the input population is as long as its zone's capacity
C21_Witness ==
    /\ pc = "moving"
    /\ tok = 2
    /\ \E key \in Coords(cfg) :
           /\ key # <<Tokens(cells)[1].X, Tokens(cells)[1].Y>>
           /\ newState[key] = <<Tokens(cells)[1].val>>
           /\ ZoneCapacity(getCellType(key[1], key[2], circles)) > 0
           /\ CountAt(cells, key) >= ZoneCapacity(getCellType(key[1], key[2], circles))

\* the entry of the speed table the specification gives a token of type val
ResolvedSpeed(val, sp) == IF val < Len(sp) THEN sp[val + 1] ELSE sp[1]

\* C22: a token's speed is speeds[type] for a type inside the table and
\* speeds[0] for a type past it; in one pass of the token loop a token of
\* speed 0 is appended to its own cell, and a token of speed 100 leaves its
\* cell whenever a neighbour can take it.
C22_SpeedDecidesAttempt ==
    [][(pc = "moving" /\ tok' = tok + 1) =>
          LET t     == CurrentToken
              own   == <<t.X, t.Y>>
              speed == ResolvedSpeed(t.val, speeds)
          IN  /\ tokenSpeed(t.val, speeds) = speed
              /\ speed = 0 => newState' = AppendAt(newState, own, t.val)
              /\ (speed = 100 /\ Admitting(newState, getNeighbors(t.X, t.Y, cfg), circles) # {})
                     => newState'[own] = newState[own]]_vars

\* C22 witness: with the table <<100>> the first token, of type 1, has left
\* its cell
C22_Witness ==
    /\ pc = "moving"
    /\ tok = 2
    /\ speeds = <<100>>
    /\ Tokens(cells)[1].val = 1
    /\ newState[<<Tokens(cells)[1].X, Tokens(cells)[1].Y>>] = <<>>

\* the coordinates of the grid at Chebyshev distance at most 1 of (x, y)
Near(c, x, y) == {key \in Coords(c) : Abs(key[1] - x) <= 1 /\ Abs(key[2] - y) <= 1}

\* C30: moveNumbers takes the tokens of its input one by one, each exactly
\* once, and appends each, with its type, to the newState list of its own
\* coordinate or of a coordinate of the grid at Chebyshev distance 1; the
\* population it returns holds at every coordinate exactly that list.
C30_TokensCorrespond ==
    [][/\ (pc = "idle" /\ pc' = "moving") => (tok' = 1 /\ newState' = emptyState(cfg))
       /\ (pc = "moving" /\ pc' = "moving") =>
              /\ tok <= Len(Tokens(cells))
              /\ tok' = tok + 1
              /\ cells' = cells
              /\ \E key \in Near(cfg, CurrentToken.X, CurrentToken.Y) :
                     newState' = [newState EXCEPT ![key] = Append(@, CurrentToken.val)]
       /\ (pc = "moving" /\ pc' = "idle") =>
              /\ tok = Len(Tokens(cells)) + 1
              /\ \A key \in Coords(cfg) :
                     /\ CountAt(cells', key) = Len(newState[key])
                     /\ Len(newState[key]) > 0 =>
                            \E k \in 1 .. Len(cells') :
                                cells'[k] = [X |-> key[1], Y |-> key[2], Vals |-> newState[key]]
      ]_vars

\* C30 witness: the first token of the input has been appended to the list
\* of a diagonal neighbour
C30_Witness ==
    /\ pc = "moving"
    /\ tok = 2
    /\ \E key \in Coords(cfg) :
           /\ Abs(key[1] - Tokens(cells)[1].X) = 1
           /\ Abs(key[2] - Tokens(cells)[1].Y) = 1
           /\ newState[key] = <<Tokens(cells)[1].val>>

\* a sparse map: every listed coordinate inside the grid, none listed twice,
\* none with an empty token list
WellFormed(cs, c) ==
    \A k \in 1 .. Len(cs) :
        /\ <<cs[k].X, cs[k].Y>> \in Coords(c)
        /\ Len(cs[k].Vals) > 0
        /\ \A j \in 1 .. Len(cs) : j # k => <<cs[j].X, cs[j].Y>> # <<cs[k].X, cs[k].Y>>

\* C27: the population generateDistribution returns, and the population
\* moveNumbers returns under a non-empty speed table, lists only coordinates
\* of the grid, none of them twice and none with an empty token list.
C27_SparseMapWellFormed ==
    (JustSeeded \/ (Advanced /\ Len(speeds) > 0)) => WellFormed(cells, cfg)

\* C27 witness: moveNumbers returned fewer cells than it was given: a cell
\* lost its tokens and is not listed
C27_Witness ==
    /\ Advanced
    /\ Len(speeds) > 0
    /\ Len(cells) < Len(prevCells)
    /\ Len(cells) > 0

\* the cells within the radius of the k-th circle, its centre excluded
WithinCircle(c, cs, k) ==
    {key \in Coords(c) :
        /\ key # <<cs[k].X, cs[k].Y>>
        /\ (key[1] - cs[k].X) * (key[1] - cs[k].X) + (key[2] - cs[k].Y) * (key[2] - cs[k].Y)
               <= cs[k].Radius * cs[k].Radius}

\* C23: every token of a population generateDistribution returned has a
\* type i with 0 <= i < len(probabilities) and probabilities[i] > 0; under
\* the vector [1.0] on a map of at most one circle every token has type 0,
\* every cell within the circle other than its centre holds 1 token, the
\* centre holds none and every other cell holds 1 or 2.
C23_TypesAndCounts ==
    JustSeeded =>
        /\ \A v \in TypesOf(cells) :
               v >= 0 /\ v < Len(probabilities) /\ probabilities[v + 1] > 0
        /\ probabilities = <<100>> =>
               /\ TypesOf(cells) \subseteq {0}
               /\ \A key \in Coords(cfg) :
                      IF Len(circles) = 1 /\ key = <<circles[1].X, circles[1].Y>>
                      THEN CountAt(cells, key) = 0
                      ELSE IF Len(circles) = 1 /\ key \in WithinCircle(cfg, circles, 1)
                      THEN CountAt(cells, key) = 1
                      ELSE CountAt(cells, key) \in {1, 2}

\* C23 witness: under [1.0] a grid of 3 by 3 with the circle of radius 1 at
\* (1,1) was seeded, a corner with 2 tokens
C23_Witness ==
    /\ JustSeeded
    /\ probabilities = <<100>>
    /\ cfg = [Width |-> 3, Height |-> 3]
    /\ Len(circles) = 1
    /\ circles[1].Radius = 1
    /\ CountAt(cells, <<0, 0>>) = 2
    /\ CountAt(cells, <<1, 0>>) = 1

RECURSIVE TokensAtFrom(_, _, _)
TokensAtFrom(cs, key, k) ==
    IF k > Len(cs) THEN <<>>
    ELSE (IF <<cs[k].X, cs[k].Y>> = key THEN cs[k].Vals ELSE <<>>) \o TokensAtFrom(cs, key, k + 1)

\* a population as a mapping: the tokens it lists at a coordinate, in order
TokensAt(cs, key) == TokensAtFrom(cs, key, 1)

\* every token type of the population has resolved speed 0
AllResolveToZero(cs, sp) == \A v \in TypesOf(cs) : ResolvedSpeed(v, sp) = 0

\* C31: moveNumbers called with a non-empty speed table in which every token
\* type of the input resolves to speed 0, on an in-bounds well-formed input,
\* returns the input as a mapping: every coordinate of the grid holds the
\* same tokens in the same order as before the call.
C31_ZeroSpeedKeepsPopulation ==
    (/\ Advanced
     /\ Len(speeds) > 0
     /\ WellFormed(prevCells, cfg)
     /\ AllResolveToZero(prevCells, speeds))
        => \A key \in Coords(cfg) : TokensAt(cells, key) = TokensAt(prevCells, key)

\* C31 witness: such a call has returned; its input listed its cells out of
\* row-major order and held two tokens of different types in one cell
C31_Witness ==
    /\ Advanced
    /\ Len(speeds) > 0
    /\ WellFormed(prevCells, cfg)
    /\ AllResolveToZero(prevCells, speeds)
    /\ cells # prevCells
    /\ \E k \in 1 .. Len(prevCells) : prevCells[k].Vals = <<0, 1>>

-----------------------------------------------------------------------------
(* More properties of SpecPack.                                            *)

\* C24: when config.Spawns > 0 and Generate returns nil, the first circle
\* of getAllCircles is a spawn whose centre is (Width / 2, Height / 2) in
\* integer division.
C24_FirstCircleAtCentre ==
    (Packed /\ config.Spawns > 0) =>
        /\ Len(PackedCircles) > 0
        /\ PackedCircles[1] = [X |-> config.Width \div 2, Y |-> config.Height \div 2,
                               Radius |-> config.SpawnR, Type |-> "spawn"]

\* C24 witness: Generate returned two spawns and a bedroom on a grid of even
\* width, the first of them at the centre
C24_Witness ==
    /\ Packed
    /\ config.Spawns = 2
    /\ config.Bedrooms = 1
    /\ config.Width = 6
    /\ PackedCircles[1].X = 3
    /\ PackedCircles[2].X # 3

\* C25: a call of Generate on a Config that validateConfig accepted never
\* spends more than the attempt budget on one circle, and it ends by
\* returning its circles or its error: it is never cut short otherwise.
C25_EndsWithResult ==
    /\ attempts <= AttemptBudget
    /\ gpc \in {"off", "start", "spawns", "bedrooms", "done", "failed"}

-----------------------------------------------------------------------------
(* Properties of SpecEpoch.                                                *)

\* the stores that two newEpoch requests for the map leave when one is
\* handled after the other
SerialOutcomes(mapID) ==
    UNION {newEpochHandler(first.maps, first.mapCells, mapID) :
              first \in newEpochHandler(before.maps, before.mapCells, mapID)}

\* C28: when two newEpoch requests for the same map have both been answered
\* 200, the stored epoch is two more than it was, the two answers carry
\* different epochs, and the stored population is one that two successive
\* requests can leave.
C28_ConcurrentAdvancesSerialise ==
    (hs[1].pc = "done" /\ hs[2].pc = "done" /\ hs[1].mapID = hs[2].mapID) =>
        /\ maps[hs[1].mapID].epoch = before.maps[hs[1].mapID].epoch + 2
        /\ hs[1].currentEpoch # hs[2].currentEpoch
        /\ \E out \in SerialOutcomes(hs[1].mapID) : mapCells = out.mapCells

\* C29: a newEpoch request that failed, for a map that is not stored or on
\* an error of the store, while no other request was being handled, leaves
\* the stored epoch and the stored population as they were.
C29_FailedAdvanceChangesNothing ==
    \A h \in Requests :
        (/\ hs[h].pc \in {"failed", "not_found"}
         /\ \A g \in Requests \ {h} : hs[g].pc = "ready") =>
            (maps = before.maps /\ mapCells = before.mapCells)

-----------------------------------------------------------------------------
(* Properties of SpecSlices.                                               *)

\* the backing arrays of the argument
InputArrays == {inCells[k].Vals.arr : k \in 1 .. Len(inCells)}

\* C26: from the call of moveNumbers under a non-empty speed table to its
\* return, every backing array of the argument holds what it held at the
\* call, so every cell of the argument keeps its coordinate and its token
\* list; and no token list of the returned population lies in a backing
\* array of the argument.
C26_InputNotMutated ==
    (spc \in {"loop", "returned"} /\ Len(speeds) > 0) =>
        /\ \A a \in 1 .. Len(heapAtCall) : heap[a] = heapAtCall[a]
        /\ CellValues(heap, inCells) = CellValues(heapAtCall, inCells)
        /\ \A k \in 1 .. Len(outCells) : outCells[k].Vals.arr \notin InputArrays

\* C26 witness: moveNumbers returned a list of three tokens, appended in
\* place to an array of four slots, for an argument whose arrays have a
\* spare slot
C26_Witness ==
    /\ spc = "returned"
    /\ Len(speeds) > 0
    /\ \E k \in 1 .. Len(outCells) : outCells[k].Vals.len = 3
    /\ \E k \in 1 .. Len(inCells) : inCells[k].Vals.len < Len(heap[inCells[k].Vals.arr])

-----------------------------------------------------------------------------
(* Properties of SpecPlayers.                                              *)

\* the row of players is inside the grid of its map
PlayerInBounds(ms, row) ==
    /\ 0 <= row.x /\ row.x < ms[row.map_id].config.Width
    /\ 0 <= row.y /\ row.y < ms[row.map_id].config.Height

\* the last request was a move of a stored player, answered 200
MoveAccepted == presp.op = "move" /\ presp.code = "ok"

\* the last request was a move answered 400
MoveRejected == presp.op = "move" /\ presp.code \in {"bad_direction", "out_of_bounds"}

\* a move that names an invalid direction or that would leave the grid is
\* answered 400 and leaves the table players as it was, and a move answered
\* 200 changes exactly one coordinate of its player by exactly 1, to a
\* position inside the grid, and no other row
MovesAreUnitSteps ==
    /\ MoveRejected => players = pbefore
    /\ (presp.op = "move" /\ presp.id \in 1 .. Len(pbefore)
        /\ (presp.direction \notin DirectionNames
            \/ ~PlayerInBounds(maps, [pbefore[presp.id] EXCEPT
                   !.x = newPosition(@, pbefore[presp.id].y, presp.direction)[1],
                   !.y = newPosition(pbefore[presp.id].x, @, presp.direction)[2]])))
           => MoveRejected
    /\ MoveAccepted =>
           /\ Abs(players[presp.id].x - pbefore[presp.id].x)
                  + Abs(players[presp.id].y - pbefore[presp.id].y) = 1
           /\ PlayerInBounds(maps, players[presp.id])
           /\ \A k \in 1 .. Len(players) : k # presp.id => players[k] = pbefore[k]

\* every stored player position is inside the grid of its map
AllPlayersInBounds == \A k \in 1 .. Len(players) : PlayerInBounds(maps, players[k])

\* C32: after any sequence of spawn and move requests every stored player
\* position is inside the grid of its map; a move that would leave the grid
\* or names an invalid direction is rejected and leaves the stored position
\* unchanged, and an accepted move changes exactly one coordinate by exactly 1.
C32_PlayersStayInBounds == AllPlayersInBounds /\ MovesAreUnitSteps

-----------------------------------------------------------------------------
(* Properties of SpecNav.                                                  *)

\* the menu stack of a user as the next call finds it: the entry of the
\* cache while its deadline is ahead, else the row of user_navigation
StackOf(u) ==
    IF u \in DOMAIN cache /\ u \in DOMAIN cacheTTL /\ cacheTTL[u] = "live"
    THEN CacheStacks[u]
    ELSE IF u \in DOMAIN userNavigation THEN userNavigation[u].stack ELSE <<>>

\* the newest n entries of a stack
Newest(stack, n) == SubSeq(stack, Len(stack) - n + 1, Len(stack))

Top(stack) == stack[Len(stack)]

\* no stack of the cache or of the table is longer than n
DepthWithin(n) ==
    /\ \A u \in DOMAIN cache : cache[u].len <= n
    /\ \A u \in DOMAIN userNavigation : Len(userNavigation[u].stack) <= n

\* C34: starting from empty stacks, after any sequence of PushMenu and
\* PopMenu calls no user's menu stack, in the cache or in the table, is
\* longer than maxStackDepth; a push onto a stack of length >= maxStackDepth
\* leaves the newest maxStackDepth-5 entries of it under the pushed menu.
C34_DepthBounded ==
    /\ [](DepthWithin(maxStackDepth))
    /\ [][\A u \in navRun.users, menuID \in navRun.menus :
             (PushMenu(u, menuID) /\ Len(StackOf(u)) >= maxStackDepth
              /\ Top(StackOf(u)) # menuID)
                 => CacheStacks'[u] = Append(Newest(StackOf(u), maxStackDepth - 5), menuID)]_vars

\* C34 witness: a push found a stack of maxStackDepth entries and left the
\* slice of the cache past the entries it dropped
C34_Witness ==
    /\ navCall.op = "push"
    /\ navCall.userID \in DOMAIN cache
    /\ cache[navCall.userID].off > 0
    /\ cache[navCall.userID].len = maxStackDepth - 5 + 1

\* PopMenu(u) on a stack of at most one entry returns ("", false) and leaves
\* the user's stack as it was; on a longer stack it removes the top entry
\* and returns the new top
PopKeepsBottom(u) ==
    IF Len(StackOf(u)) <= 1
    THEN /\ navCall'.prevMenu = "" /\ ~navCall'.ok
         /\ StackOf(u)' = StackOf(u)
         /\ Len(saves') = Len(saves)
    ELSE /\ StackOf(u)' = SubSeq(StackOf(u), 1, Len(StackOf(u)) - 1)
         /\ navCall'.prevMenu = Top(StackOf(u)') /\ navCall'.ok

\* the entries of the cache whose deadline is ahead
LiveEntries ==
    [u \in {x \in DOMAIN cache : x \in DOMAIN cacheTTL /\ cacheTTL[x] = "live"} |-> CacheStacks[u]]

\* C35 as stated: PopMenu never removes the bottom entry of a user's stack:
\* on a stack of length <= 1 it returns ("", false) and leaves cache and
\* stack unchanged; on a longer stack it removes exactly the top entry and
\* returns the new top.
C35_PopLeavesCacheUnchanged ==
    [][\A u \in navRun.users :
          PopMenu(u) => /\ PopKeepsBottom(u)
                        /\ Len(StackOf(u)) <= 1 => CacheStacks' = CacheStacks]_vars

\* C35 amended: on a stack of length <= 1 PopMenu returns ("", false), starts
\* no save and leaves the user's stack, the table, the entries of the other
\* users and every entry whose deadline is ahead unchanged; on a longer
\* stack it removes exactly the top entry and returns the new top.
C35_PopKeepsBottom ==
    [][\A u \in navRun.users :
          PopMenu(u) =>
              /\ PopKeepsBottom(u)
              /\ Len(StackOf(u)) <= 1 =>
                     /\ userNavigation' = userNavigation
                     /\ \A v \in DOMAIN LiveEntries :
                            v \in DOMAIN cache' /\ CacheStacks'[v] = CacheStacks[v]
                     /\ \A v \in navRun.users \ {u} :
                            /\ v \in DOMAIN cache' <=> v \in DOMAIN cache
                            /\ v \in DOMAIN cache => CacheStacks'[v] = CacheStacks[v]]_vars

\* C35 witness: PopMenu was refused for a user whose last stored stack had
\* more than one entry: the entry of the cache had expired and the row of
\* the table held a stack of one entry
C35_Witness ==
    /\ navCall.op = "pop"
    /\ ~navCall.ok
    /\ navCall.userID \in DOMAIN latest
    /\ Len(latest[navCall.userID]) > 1
    /\ Len(StackOf(navCall.userID)) = 1

\* no two equal adjacent entries
NoRepeat(stack) == \A k \in 1 .. Len(stack) - 1 : stack[k] # stack[k + 1]

\* C36: pushing the menu that is already the top of a user's stack leaves
\* the stack unchanged, and starting from empty stacks no sequence of
\* PushMenu and PopMenu calls produces a stack, in the cache or in the
\* table, with two equal adjacent entries.
C36_NoRepeatedEntry ==
    /\ [](\A u \in navRun.users : NoRepeat(StackOf(u)))
    /\ [][\A u \in navRun.users, menuID \in navRun.menus :
             (PushMenu(u, menuID) /\ Len(StackOf(u)) > 0 /\ Top(StackOf(u)) = menuID)
                 => StackOf(u)' = StackOf(u)]_vars

\* C33: once every save that PushMenu and PopMenu started has completed, the
\* stack stored in user_navigation for a user is the stack the user's most
\* recent PushMenu or PopMenu produced.
C33_StoredStackIsLatest ==
    saves = <<>> =>
        \A u \in DOMAIN userNavigation : userNavigation[u].stack = latest[u]

\* cache and cacheTTL have the same keys
SameKeys == DOMAIN cache = DOMAIN cacheTTL

\* C37: at any time, under any interleaving of PushMenu, PopMenu, loads from
\* the table and cleanupCache, the cache holds at most maxCacheSize users and
\* cache and cacheTTL have the same keys.
C37_CacheBounded ==
    /\ Cardinality(DOMAIN cache) <= maxCacheSize
    /\ SameKeys

-----------------------------------------------------------------------------
(* Properties of SpecMenus.                                                *)

\* p leads from the root to menu m through h: it starts with "main", ends
\* with m, and the element before each further element is that element's
\* registered parent
RootPath(h, p, m) ==
    /\ Len(p) > 0
    /\ p[1] = "main"
    /\ p[Len(p)] = m
    /\ \A k \in 2 .. Len(p) : p[k] \in DOMAIN h /\ h[p[k]] = p[k - 1]

\* C38: for every menu of the hierarchy, the menus RegisterMenu added
\* included, GetBreadcrumb returns, and what it returns is the path from the
\* root to the menu: it starts with "main", ends with the menu, and the
\* predecessor of each element is its registered parent.
C38_BreadcrumbIsRootPath ==
    (crumb.op = "breadcrumb" /\ crumb.menuID \in DOMAIN hierarchy) =>
        /\ crumb.returns
        /\ RootPath(hierarchy, crumb.path, crumb.menuID)

====
